---- MODULE Spec2Model ----
(***************************************************************************)
(* A model of api_utils: the cursor-based pagination query                 *)
(* (execute_infinite_scroll_query) over a document collection.             *)
(*                                                                         *)
(* Strings that the code inspects character by character (identifiers,     *)
(* names, regular expressions) are sequences of one-character strings.     *)
(* Strings that the code only compares for equality (sort_by, order,       *)
(* messages) are TLA+ strings.                                             *)
(***************************************************************************)
EXTENDS Integers, Sequences, FiniteSets, TLC

\* ---------------------------------------------------------------- bounds

\* The largest number of documents the collection holds.
MaxDocs == 2

\* The largest number of pages a chain of calls is followed for.
MaxPages == 4

\* The number of hexadecimal characters of an ObjectId's string form
\* (24 in bson; scaled down, the parsing rules are those of bson).
OidHexLen == 2

\* ---------------------------------------------------- program constants

MinLimit == 1

MaxLimit == 100

DefaultLimit == 10

\* ------------------------------------------------------- optional values

\* Python's None, a str, and a value that is neither (an int).
None == [t |-> "none", v |-> <<>>]

Str(s) == [t |-> "str", v |-> s]

NotAString == [t |-> "int", v |-> <<>>]

\* Python truthiness of an optional string: None and "" are falsy.
Truthy(x) == x.t = "str" /\ Len(x.v) > 0

\* ---------------------------------------------------------- characters

HexDigits == <<"0", "1", "2", "3", "4", "5", "6", "7", "8", "9",
               "a", "b", "c", "d", "e", "f">>

UpperHex == <<"0", "1", "2", "3", "4", "5", "6", "7", "8", "9",
              "A", "B", "C", "D", "E", "F">>

\* The value of a hexadecimal character, -1 when it is none.
HexVal(c) ==
    IF \E i \in 1..16 : HexDigits[i] = c
    THEN (CHOOSE i \in 1..16 : HexDigits[i] = c) - 1
    ELSE IF \E i \in 1..16 : UpperHex[i] = c
         THEN (CHOOSE i \in 1..16 : UpperHex[i] = c) - 1
         ELSE -1

\* The code points of the characters names and patterns are made of.
Code(c) ==
    CASE c = "." -> 46
      [] c = "0" -> 48
      [] c = "1" -> 49
      [] c = "2" -> 50
      [] c = "3" -> 51
      [] c = "4" -> 52
      [] c = "5" -> 53
      [] c = "6" -> 54
      [] c = "7" -> 55
      [] c = "8" -> 56
      [] c = "9" -> 57
      [] c = "A" -> 65
      [] c = "B" -> 66
      [] c = "a" -> 97
      [] c = "b" -> 98
      [] c = "e" -> 101
      [] c = "i" -> 105
      [] c = "m" -> 109
      [] c = "t" -> 116

\* Case folding, as the regex option "i" applies it.
Lower(c) ==
    CASE c = "A" -> "a"
      [] c = "B" -> "b"
      [] OTHER -> c

\* ------------------------------------------------------------ ObjectId

\* An ObjectId is its sequence of OidHexLen half-bytes.
\* bson.ObjectId(x): a str parses when it has exactly OidHexLen characters,
\* all hexadecimal; any other str raises InvalidId, a non-str TypeError.
ObjectIdParses(x) ==
    /\ x.t = "str"
    /\ Len(x.v) = OidHexLen
    /\ \A i \in 1..Len(x.v) : HexVal(x.v[i]) >= 0

\* The half-bytes of a string that parses.
ObjectId(x) == [i \in 1..Len(x.v) |-> HexVal(x.v[i])]

\* str(ObjectId): lower-case hexadecimal.
OidStr(oid) == Str([i \in 1..Len(oid) |-> HexDigits[oid[i] + 1]])

\* Lexicographic order on sequences of numbers (bytes of an ObjectId,
\* code points of a string); a proper prefix sorts first.
RECURSIVE SeqLess(_, _)
SeqLess(a, b) ==
    IF Len(b) = 0 THEN FALSE
    ELSE IF Len(a) = 0 THEN TRUE
    ELSE IF Head(a) # Head(b) THEN Head(a) < Head(b)
    ELSE SeqLess(Tail(a), Tail(b))

\* ------------------------------------------------- the document store

\* The identifiers documents are created with: OidHexLen half-bytes.
OidOf(hi, lo) ==
    [i \in 1..OidHexLen |-> IF i = 1 THEN hi ELSE IF i = OidHexLen THEN lo ELSE 0]

StoreIds == {OidOf(0, 1), OidOf(0, 10), OidOf(1, 0), OidOf(1, 1)}

DocNames == {<<"A">>, <<"a", "B">>}

Documents == [_id : StoreIds, name : DocNames]

\* Python's regex search of a pattern made of literal characters and "."
\* (any character), with option "i": it matches anywhere in the value.
RegexMatchAt(p, s, k) ==
    \A i \in 1..Len(p) : p[i] = "." \/ Lower(p[i]) = Lower(s[k + i - 1])

RegexSearch(p, s) ==
    \E k \in 1..(Len(s) - Len(p) + 1) : RegexMatchAt(p, s, k)

\* Whether the store's find() selects a document under a filter
\* {"name": {"$regex": p, "$options": "i"}, "_id": {op: oid}}.
Matches(doc, filter) ==
    /\ filter.name.t = "str" => RegexSearch(filter.name.v, doc.name)
    /\ filter.id_op = "$gt" => SeqLess(filter.id, doc._id)
    /\ filter.id_op = "$lt" => SeqLess(doc._id, filter.id)
    /\ filter.id_op = "$gte" => ~SeqLess(doc._id, filter.id)
    /\ filter.id_op = "$lte" => ~SeqLess(filter.id, doc._id)

\* The value a document is sorted by: a missing field sorts as null.
SortKey(doc, field) ==
    CASE field = "_id" -> doc._id
      [] field = "name" -> [i \in 1..Len(doc.name) |-> Code(doc.name[i])]
      [] OTHER -> <<>>

\* Whether a comes strictly before b under a one-key sort specification.
Before(a, b, sort_spec) ==
    IF sort_spec.direction = 1
    THEN SeqLess(SortKey(a, sort_spec.field), SortKey(b, sort_spec.field))
    ELSE SeqLess(SortKey(b, sort_spec.field), SortKey(a, sort_spec.field))

\* The documents of s the filter selects, in natural order.
RECURSIVE SelectSeq2(_, _)
SelectSeq2(s, filter) ==
    IF Len(s) = 0 THEN <<>>
    ELSE IF Matches(Head(s), filter)
         THEN <<Head(s)>> \o SelectSeq2(Tail(s), filter)
         ELSE SelectSeq2(Tail(s), filter)

\* Mutant: the store ignores the sort specification.
SortDocs_NaturalOrder(s, sort_spec) == s

\* Insert x into a sorted sequence behind every element it does not
\* strictly precede: equal keys keep their natural order.
RECURSIVE InsertSorted(_, _, _)
InsertSorted(x, s, sort_spec) ==
    IF Len(s) = 0 THEN <<x>>
    ELSE IF Before(x, Head(s), sort_spec) THEN <<x>> \o s
    ELSE <<Head(s)>> \o InsertSorted(x, Tail(s), sort_spec)

RECURSIVE SortDocs(_, _)
SortDocs(s, sort_spec) ==
    IF Len(s) = 0 THEN <<>>
    ELSE InsertSorted(s[Len(s)], SortDocs(SubSeq(s, 1, Len(s) - 1), sort_spec), sort_spec)

\* cursor.limit(n): the first n documents.
Limit(s, n) == SubSeq(s, 1, IF Len(s) < n THEN Len(s) ELSE n)

\* collection.find(filter).sort(sort_spec).limit(n), listed.
Find(coll, query) ==
    Limit(SortDocs(SelectSeq2(coll, query.filter), query.sort), query.limit)

\* ------------------------------------------ execute_infinite_scroll_query

DefaultSortFields == <<"name", "description">>

\* allowed_sort_fields or ["name", "description"]: None and [] are falsy.
AllowedSortFields(allowed) ==
    IF allowed.t = "list" /\ Len(allowed.v) > 0 THEN allowed.v ELSE DefaultSortFields

InSeq(x, s) == \E i \in 1..Len(s) : s[i] = x

NoMessage == [text |-> "", fields |-> <<>>]

LimitTooSmall(limit) == limit < MinLimit

\* Mutant: the upper bound itself is refused.
LimitTooLarge_OffByOne(limit) == limit >= MaxLimit

LimitTooLarge(limit) == limit > MaxLimit

SortByAllowed(sort_by, allowed) == InSeq(sort_by, AllowedSortFields(allowed))

\* Mutant: the order is compared without regard to case.
OrderValid_AnyCase(order) == order \in {"asc", "desc", "ASC", "DESC"}

OrderValid(order) == order \in {"asc", "desc"}

\* Mutant: "if after_id:" in place of "if after_id is not None:".
AfterIdValid_Truthy(after_id) == ~Truthy(after_id) \/ ObjectIdParses(after_id)

AfterIdValid(after_id) == after_id.t = "none" \/ ObjectIdParses(after_id)

\* The checks of the parameters, in the code's order: the message of the
\* first one that fails, NoMessage when none does.
Validate(r) ==
    IF LimitTooSmall(r.limit)
    THEN [text |-> "limit must be >= 1", fields |-> <<>>]
    ELSE IF LimitTooLarge(r.limit)
    THEN [text |-> "limit must be <= 100", fields |-> <<>>]
    ELSE IF ~SortByAllowed(r.sort_by, r.allowed_sort_fields)
    THEN [text |-> "sort_by must be one of: ",
          fields |-> AllowedSortFields(r.allowed_sort_fields)]
    ELSE IF ~OrderValid(r.order)
    THEN [text |-> "order must be 'asc' or 'desc'", fields |-> <<>>]
    ELSE IF ~AfterIdValid(r.after_id)
    THEN [text |-> "after_id must be a valid MongoDB ObjectId", fields |-> <<>>]
    ELSE NoMessage

\* Mutant: the range includes the cursor itself.
FilterQuery_Inclusive(r) ==
    [name  |-> IF Truthy(r.name) THEN r.name ELSE None,
     id_op |-> IF r.after_id.t = "none" THEN "none"
               ELSE IF r.order = "asc" THEN "$gte" ELSE "$lte",
     id    |-> IF r.after_id.t = "none" THEN <<>> ELSE ObjectId(r.after_id)]

\* Mutant: the operators of the two orders are swapped.
FilterQuery_Swapped(r) ==
    [name  |-> IF Truthy(r.name) THEN r.name ELSE None,
     id_op |-> IF r.after_id.t = "none" THEN "none"
               ELSE IF r.order = "asc" THEN "$lt" ELSE "$gt",
     id    |-> IF r.after_id.t = "none" THEN <<>> ELSE ObjectId(r.after_id)]

\* Mutant: "$gt" whatever the order.
FilterQuery_AlwaysGt(r) ==
    [name  |-> IF Truthy(r.name) THEN r.name ELSE None,
     id_op |-> IF r.after_id.t = "none" THEN "none" ELSE "$gt",
     id    |-> IF r.after_id.t = "none" THEN <<>> ELSE ObjectId(r.after_id)]

\* filter_query: the name constraint and the identifier-range constraint.
FilterQuery(r) ==
    [name  |-> IF Truthy(r.name) THEN r.name ELSE None,
     id_op |-> IF r.after_id.t = "none" THEN "none"
               ELSE IF r.order = "asc" THEN "$gt" ELSE "$lt",
     id    |-> IF r.after_id.t = "none" THEN <<>> ELSE ObjectId(r.after_id)]

\* Mutant: the direction is ascending whatever the order.
SortSpec_AlwaysAscending(r) == [field |-> r.sort_by, direction |-> 1]

\* sort_spec = [(sort_by, sort_direction)]
SortSpec(r) ==
    [field |-> r.sort_by, direction |-> IF r.order = "asc" THEN 1 ELSE -1]

\* Mutant: no over-fetch, the store is asked for limit documents.
StoreQuery_NoOverFetch(r) ==
    [filter |-> FilterQuery(r), sort |-> SortSpec(r), limit |-> r.limit]

\* The one query the function sends to the store.
StoreQuery(r) ==
    [filter |-> FilterQuery(r), sort |-> SortSpec(r), limit |-> r.limit + 1]

HasMore(items, limit) == Len(items) > limit

\* Mutant: the over-fetched document is not cut off.
PageResult_NoTruncate(items, limit) ==
    IF HasMore(items, limit)
    THEN [kind |-> "ok", items |-> items, limit |-> limit, has_more |-> TRUE,
          next_cursor |-> OidStr(items[Len(items)]._id), message |-> NoMessage]
    ELSE [kind |-> "ok", items |-> items, limit |-> limit,
          has_more |-> FALSE, next_cursor |-> None, message |-> NoMessage]

\* Mutant: a cursor is returned with every non-empty page.
PageResult_AlwaysCursor(items, limit) ==
    LET page == SubSeq(items, 1, IF Len(items) < limit THEN Len(items) ELSE limit)
    IN  [kind |-> "ok", items |-> page, limit |-> limit,
         has_more |-> HasMore(items, limit),
         next_cursor |-> IF Len(page) > 0 THEN OidStr(page[Len(page)]._id) ELSE None,
         message |-> NoMessage]

\* Mutant: the cursor is read before the list is cut to limit.
PageResult_CursorBeforeTruncate(items, limit) ==
    IF HasMore(items, limit)
    THEN [kind |-> "ok", items |-> SubSeq(items, 1, limit), limit |-> limit,
          has_more |-> TRUE,
          next_cursor |-> OidStr(items[Len(items)]._id), message |-> NoMessage]
    ELSE [kind |-> "ok", items |-> items, limit |-> limit,
          has_more |-> FALSE, next_cursor |-> None, message |-> NoMessage]

\* The Page Result made of what the store returned.
PageResult(items, limit) ==
    IF HasMore(items, limit)
    THEN LET page == SubSeq(items, 1, limit)
         IN  [kind |-> "ok", items |-> page, limit |-> limit,
              has_more |-> TRUE,
              next_cursor |-> OidStr(page[Len(page)]._id),
              message |-> NoMessage]
    ELSE [kind |-> "ok", items |-> items, limit |-> limit,
          has_more |-> FALSE, next_cursor |-> None, message |-> NoMessage]

BadRequest(msg) ==
    [kind |-> "HTTPBadRequest", items |-> <<>>, limit |-> 0,
     has_more |-> FALSE, next_cursor |-> None, message |-> msg]

\* Mutant: the order is only checked once the query has run.
ExecuteInfiniteScrollQuery_LateOrderCheck(coll, r) ==
    LET msg == Validate(r)
    IN  IF msg # NoMessage
        THEN [outcome |-> BadRequest(msg),
              queries |-> IF msg.text = "order must be 'asc' or 'desc'"
                          THEN <<StoreQuery(r)>> ELSE <<>>]
        ELSE [outcome |-> PageResult(Find(coll, StoreQuery(r)), r.limit),
              queries |-> <<StoreQuery(r)>>]

\* The whole call: its outcome and the queries it sent to the store.
ExecuteInfiniteScrollQuery(coll, r) ==
    LET msg == Validate(r)
    IN  IF msg # NoMessage
    THEN [outcome |-> BadRequest(msg), queries |-> <<>>]
    ELSE [outcome |-> PageResult(Find(coll, StoreQuery(r)), r.limit),
          queries |-> <<StoreQuery(r)>>]

\* ------------------------------------------------------- the requests

\* The string of OidHexLen characters that is all "0" but for its last.
PadHex(c) == [i \in 1..OidHexLen |-> IF i = OidHexLen THEN c ELSE "0"]

Names == {None, Str(<<>>), Str(<<"b">>), Str(<<".">>)}

AfterIds ==
    {None, NotAString, Str(<<>>),
     Str(PadHex("1")), Str(PadHex("A")), Str(PadHex("g")),
     Str([i \in 1..OidHexLen |-> IF i = 1 THEN "1" ELSE "0"]),
     Str(PadHex("0") \o <<"0">>)}

Limits == {MinLimit - 1, MinLimit, MinLimit + 1, MaxLimit, MaxLimit + 1}

SortBys == {"name", "description", "_id"}

Orders == {"asc", "desc", "ASC"}

AllowLists == {None, [t |-> "list", v |-> <<>>], [t |-> "list", v |-> <<"_id", "name">>]}

Requests ==
    [name : Names, after_id : AfterIds, limit : Limits, sort_by : SortBys,
     order : Orders, allowed_sort_fields : AllowLists]

\* The parameters' defaults.
DefaultRequest ==
    [name |-> None, after_id |-> None, limit |-> DefaultLimit, sort_by |-> "name",
     order |-> "asc", allowed_sort_fields |-> None]

NoResult ==
    [kind |-> "none", items |-> <<>>, limit |-> 0, has_more |-> FALSE,
     next_cursor |-> None, message |-> NoMessage]

\* ------------------------------------------------------------- the state

VARIABLES
    collection,   \* the documents of the collection, in natural order
    pc,           \* "idle", or "returned" once a call has come back
    request,      \* the parameters of the call that came back
    result,       \* its Page Result or its failure
    queries,      \* the queries this call sent to the store
    pages,        \* the results of the calls of a chain of pages, in order
    first,        \* the result of the call that is then repeated
    threads,      \* the invocations running side by side, one per thread
    environ,      \* os.environ: the value of each variable, None when unset
    files,        \* the content of each configuration file, None when absent
    config,       \* Config._instance and its attributes
    call,         \* the last call into Config, Token or a route, and its outcome
    clock,        \* the time, in ticks
    issued,       \* the last token dev-login issued, and the request it was for
    session,      \* the dictionary of the Token made from the issued token
    mongo,        \* MongoIO._instance and its attributes
    server,       \* whether the MongoDB server answers
    callers,      \* the calls of MongoIO.get_instance() under way, one per thread
    mcall,        \* the last call of a MongoIO method, and its outcome
    encoding      \* the call of encode_document: its arguments and its outcome

vars == <<collection, pc, request, result, queries, pages, first, threads,
          environ, files, config, call, clock, issued, session,
          mongo, server, callers, mcall, encoding>>

\* The request-handling threads.
Threads == {1, 2}

\* A thread that runs no invocation.
IdleThread ==
    [pc |-> "idle", req |-> DefaultRequest, items |-> <<>>, res |-> NoResult]

\* ------------------------------------------------------------- Config

\* The largest number of environment variables and files that are set.
MaxSettings == 2

\* A text is the sequence of its pieces: each a run of characters without
\* white space, or one white-space character.
WhiteSpace == {" ", "\n"}

\* str.strip(): without leading and trailing white space.
RECURSIVE StripLeft(_)
StripLeft(s) ==
    IF Len(s) > 0 /\ Head(s) \in WhiteSpace THEN StripLeft(Tail(s)) ELSE s

RECURSIVE StripRight(_)
StripRight(s) ==
    IF Len(s) > 0 /\ s[Len(s)] \in WhiteSpace
    THEN StripRight(SubSeq(s, 1, Len(s) - 1)) ELSE s

Strip(s) == StripRight(StripLeft(s))

\* int(value) of the texts that occur; NotAnInt stands for ValueError.
NotAnInt == -1

IntOf(s) ==
    CASE s = <<"480">> -> 480
      [] s = <<"1234">> -> 1234
      [] s = <<"9999">> -> 9999
      [] OTHER -> NotAnInt

\* value.lower() of the texts that occur.
LowerText(s) ==
    CASE s = <<"True">> -> <<"true">>
      [] s = <<"TRUE">> -> <<"true">>
      [] OTHER -> s

\* The configuration keys, in the order initialize() goes through them,
\* with the dictionary each is in and its default.
ConfigKeys ==
    <<[name |-> "BUILT_AT", kind |-> "string", default |-> <<"LOCAL">>],
      [name |-> "CONFIG_FOLDER", kind |-> "string", default |-> <<"./">>],
      [name |-> "MONGO_DB_NAME", kind |-> "string", default |-> <<"mentor_hub">>],
      [name |-> "JWT_TTL_MINUTES", kind |-> "int", default |-> <<"480">>],
      [name |-> "ENABLE_LOGIN", kind |-> "boolean", default |-> <<"false">>],
      [name |-> "MONGO_CONNECTION_STRING", kind |-> "secret",
       default |-> <<"mongodb://mongodb:27017">>],
      [name |-> "JWT_SECRET", kind |-> "secret",
       default |-> <<"dev-secret-change-me">>]>>

KeyNames == {ConfigKeys[i].name : i \in 1..Len(ConfigKeys)}

\* The folders configuration files are in: the working directory and a
\* configuration folder.
Folders == {"cwd", "/cfg"}

\* Path(CONFIG_FOLDER): "" and "./" are the working directory; a folder
\* that is not one of Folders holds no file.
FolderOf(text) ==
    CASE text = <<>> -> "cwd"
      [] text = <<"./">> -> "cwd"
      [] text = <<"/cfg">> -> "/cfg"
      [] OTHER -> "nowhere"

\* Config._get_config_value without its config_items entry: the value and
\* where it is from.
Lookup_EnvironmentFirst(folder, key, env, fs) ==
    IF Truthy(env[key.name])
    THEN [value |-> env[key.name].v, from |-> "environment"]
    ELSE IF FolderOf(folder) \in Folders /\ fs[<<FolderOf(folder), key.name>>] # None
    THEN [value |-> Strip(fs[<<FolderOf(folder), key.name>>].v), from |-> "file"]
    ELSE [value |-> key.default, from |-> "default"]

Lookup(folder, key, env, fs) ==
    IF FolderOf(folder) \in Folders /\ fs[<<FolderOf(folder), key.name>>] # None
    THEN [value |-> Strip(fs[<<FolderOf(folder), key.name>>].v), from |-> "file"]
    ELSE IF Truthy(env[key.name])
    THEN [value |-> env[key.name].v, from |-> "environment"]
    ELSE [value |-> key.default, from |-> "default"]

\* Mutant: the entry of a secret holds its value.
ConfigItem_Unmasked(key, found) ==
    [name |-> key.name, value |-> found.value, from |-> found.from]

\* The config_items entry of a key: secrets are masked.
ConfigItem(key, found) ==
    [name |-> key.name,
     value |-> IF key.kind = "secret" THEN <<"secret">> ELSE found.value,
     from |-> found.from]

\* The attributes as Config.__init__ sets them before initialize().
BlankAttributes ==
    [BUILT_AT |-> <<>>, CONFIG_FOLDER |-> <<>>, MONGO_DB_NAME |-> <<>>,
     JWT_TTL_MINUTES |-> 0, ENABLE_LOGIN |-> FALSE,
     MONGO_CONNECTION_STRING |-> <<>>, JWT_SECRET |-> <<>>]

\* One round of a loop of initialize(): look the key up in the
\* CONFIG_FOLDER of the moment, record it, convert and set the attribute;
\* int() of a text that is no number and a JWT_SECRET equal to the default
\* raise ValueError and leave the attribute as it was.
InitializeKey(c, key, env, fs) ==
    LET found == Lookup(c.attrs.CONFIG_FOLDER, key, env, fs)
        items == Append(c.items, ConfigItem(key, found))
    IN  CASE key.kind = "int" ->
               IF IntOf(found.value) = NotAnInt
               THEN [c EXCEPT !.items = items, !.raised = "ValueError"]
               ELSE [c EXCEPT !.items = items, !.attrs[key.name] = IntOf(found.value)]
          [] key.kind = "boolean" ->
               [c EXCEPT !.items = items,
                         !.attrs[key.name] = (LowerText(found.value) = <<"true">>)]
          [] key.kind = "secret" ->
               IF key.name = "JWT_SECRET" /\ found.value = key.default
               THEN [c EXCEPT !.items = items, !.raised = "ValueError"]
               ELSE [c EXCEPT !.items = items, !.attrs[key.name] = found.value]
          [] OTHER ->
               [c EXCEPT !.items = items, !.attrs[key.name] = found.value]

RECURSIVE InitializeFrom(_, _, _, _)
InitializeFrom(c, i, env, fs) ==
    IF i > Len(ConfigKeys) \/ c.raised # "none" THEN c
    ELSE InitializeFrom(InitializeKey(c, ConfigKeys[i], env, fs), i + 1, env, fs)

\* Mutant: the entries are added to those config_items holds.
Initialize_Accumulating(attrs, env, fs) ==
    InitializeFrom([attrs |-> attrs, items |-> config.items, raised |-> "none"],
                   1, env, fs)

\* Config.initialize(): config_items is reset, then every key is loaded.
Initialize(attrs, env, fs) ==
    InitializeFrom([attrs |-> attrs, items |-> <<>>, raised |-> "none"], 1, env, fs)

\* No instance: Config._instance is None.
NoConfig ==
    [instance |-> FALSE, attrs |-> BlankAttributes, items |-> <<>>,
     versions |-> <<>>, enumerators |-> <<>>]

\* Config(): _instance is set first, then the attributes are blanked and
\* initialize() runs; when it raises, _instance stays set.
Construct(env, fs) ==
    LET c == Initialize(BlankAttributes, env, fs)
    IN  [config |-> [instance |-> TRUE, attrs |-> c.attrs, items |-> c.items,
                     versions |-> <<>>, enumerators |-> <<>>],
         raised |-> c.raised]

\* Config.to_dict(token)
ToDict(cfg, token) ==
    [config_items |-> cfg.items, versions |-> cfg.versions,
     enumerators |-> cfg.enumerators, token |-> token]

\* Config.get_instance(): constructs when there is no instance, and returns
\* _instance.
GetInstance(cfg, env, fs) ==
    IF cfg.instance THEN [config |-> cfg, raised |-> "none"] ELSE Construct(env, fs)

\* The state of the components other than the paging caller, and its
\* initial value.
others == <<threads, environ, files, config, call, clock, issued, session,
            mongo, server, callers, mcall, encoding>>

\* No call of encode_document.
NoEncoding ==
    [document |-> <<>>, id_properties |-> {}, date_properties |-> {},
     done |-> TRUE, raised |-> FALSE, result |-> <<>>]

mongoVars == <<mongo, server, callers, mcall>>

\* MongoIO._instance is None.
NoMongo == [instance |-> FALSE, built |-> FALSE, connected |-> FALSE, client |-> "unset"]

\* A thread that is not in get_instance().
IdleCaller == [pc |-> "idle", got |-> NoMongo]

NoMCall ==
    [op |-> "none", args |-> <<>>, before |-> NoMongo, raised |-> "none",
     touched |-> FALSE, match |-> None, returned |-> None]

loginVars == <<clock, issued, session>>

\* No token has been issued; no Token has been made from one.
NoIssued == [token |-> <<>>, at |-> 0, attrs |-> BlankAttributes, body |-> <<>>]

NoSession == [user_id |-> <<>>, roles |-> <<>>]

NoCall ==
    [op |-> "none", raised |-> "none", message |-> "", status |-> 0,
     kind |-> "none", arg |-> <<>>, before |-> <<>>]

ServicesInit ==
    /\ threads = [t \in Threads |-> IdleThread]
    /\ environ = [k \in KeyNames |-> None]
    /\ files = [f \in Folders \X KeyNames |-> None]
    /\ config = NoConfig
    /\ call = NoCall
    /\ clock = 0
    /\ issued = NoIssued
    /\ session = NoSession
    /\ mongo = NoMongo
    /\ server = TRUE
    /\ callers = [t \in Threads |-> IdleCaller]
    /\ mcall = NoMCall

OthersInit == ServicesInit /\ encoding = NoEncoding

Init ==
    /\ collection = <<>>
    /\ pc = "idle"
    /\ request = DefaultRequest
    /\ result = NoResult
    /\ queries = <<>>
    /\ pages = <<>>
    /\ first = NoResult
    /\ OthersInit

\* MongoIO.create_document: insert_one appends a document with a new _id.
CreateDocument(doc) ==
    /\ pc = "idle"
    /\ Len(collection) < MaxDocs
    /\ \A i \in 1..Len(collection) : collection[i]._id # doc._id
    /\ collection' = Append(collection, doc)
    /\ UNCHANGED <<pc, request, result, queries, pages, first>>
    /\ UNCHANGED others

\* Mutant: the call consumes the documents it returns.
Call_Consuming ==
    /\ pc = "idle"
    /\ \E r \in Requests :
         LET out == ExecuteInfiniteScrollQuery(collection, r)
         IN  /\ request' = r
             /\ result' = out.outcome
             /\ queries' = out.queries
             /\ collection' = SubSeq(collection, Len(out.outcome.items) + 1, Len(collection))
    /\ pc' = "returned"
    /\ UNCHANGED <<pages, first>>
    /\ UNCHANGED others

\* One call of execute_infinite_scroll_query(collection, **r), for any r.
Call ==
    /\ pc = "idle"
    /\ \E r \in Requests :
         LET out == ExecuteInfiniteScrollQuery(collection, r)
         IN  /\ request' = r
             /\ result' = out.outcome
             /\ queries' = out.queries
    /\ pc' = "returned"
    /\ UNCHANGED <<collection, pages, first>>
    /\ UNCHANGED others

\* The caller is done with the result; the call's locals are gone.
Discard ==
    /\ pc \in {"returned", "repeated"}
    /\ pc' = "idle"
    /\ request' = DefaultRequest
    /\ result' = NoResult
    /\ queries' = <<>>
    /\ pages' = <<>>
    /\ first' = NoResult
    /\ UNCHANGED collection
    /\ UNCHANGED others

Next ==
    \/ \E doc \in Documents : CreateDocument(doc)
    \/ Call
    \/ Discard

Spec == Init /\ [][Next]_vars

TypeOK ==
    /\ pc \in {"idle", "returned", "repeated"}
    /\ Len(collection) <= MaxDocs
    /\ result.kind \in {"none", "ok", "HTTPBadRequest"}

\* ------------------------------------------------------ chains of pages

\* The first calls of a chain: no cursor; limits that cut the collection
\* into pages, and one that is refused.
PagingRequests ==
    [name : Names, after_id : {None},
     limit : {MinLimit - 1, MinLimit, MinLimit + 1},
     sort_by : SortBys, order : {"asc", "desc"},
     allowed_sort_fields : {None, [t |-> "list", v |-> <<"_id", "name">>]}]

\* Mutant: the first call consumes the documents it returns.
FirstPage_Consuming ==
    /\ pc = "idle"
    /\ \E r \in PagingRequests :
         LET out == ExecuteInfiniteScrollQuery(collection, r)
         IN  /\ request' = r
             /\ result' = out.outcome
             /\ queries' = out.queries
             /\ pages' = <<out.outcome>>
             /\ collection' = SubSeq(collection, Len(out.outcome.items) + 1, Len(collection))
    /\ pc' = "returned"
    /\ UNCHANGED first
    /\ UNCHANGED others

\* The first call of a chain, made without a cursor.
FirstPage ==
    /\ pc = "idle"
    /\ \E r \in PagingRequests :
         LET out == ExecuteInfiniteScrollQuery(collection, r)
         IN  /\ request' = r
             /\ result' = out.outcome
             /\ queries' = out.queries
             /\ pages' = <<out.outcome>>
    /\ pc' = "returned"
    /\ UNCHANGED <<collection, first>>
    /\ UNCHANGED others

\* The caller asks for the next page: the same call, with the next_cursor
\* it was given as after_id.
NextPage ==
    /\ pc = "returned"
    /\ Len(pages) >= 1
    /\ Len(pages) < MaxPages
    /\ result.kind = "ok"
    /\ result.has_more
    /\ LET r == [request EXCEPT !.after_id = result.next_cursor]
           out == ExecuteInfiniteScrollQuery(collection, r)
       IN  /\ request' = r
           /\ result' = out.outcome
           /\ queries' = out.queries
           /\ pages' = Append(pages, out.outcome)
    /\ UNCHANGED <<collection, pc, first>>
    /\ UNCHANGED others

\* The caller makes the call that came back once more, with the same
\* parameters.
Repeat ==
    /\ pc = "returned"
    /\ Len(pages) >= 1
    /\ first' = result
    /\ LET out == ExecuteInfiniteScrollQuery(collection, request)
       IN  /\ result' = out.outcome
           /\ queries' = out.queries
    /\ pc' = "repeated"
    /\ UNCHANGED <<collection, request, pages>>
    /\ UNCHANGED others

PagingNext ==
    \/ \E doc \in Documents : CreateDocument(doc)
    \/ FirstPage
    \/ NextPage
    \/ Repeat
    \/ Discard

SpecPaging == Init /\ [][PagingNext]_vars

\* The calls a chain is followed from: without a cursor, or from a cursor
\* the caller has kept.
ChainRequests ==
    [name : Names, after_id : {None, Str(PadHex("1"))},
     limit : {MinLimit, MinLimit + 1},
     sort_by : SortBys, order : {"asc", "desc"},
     allowed_sort_fields : {[t |-> "list", v |-> <<"_id", "name", "description">>]}]

\* The first call of a chain that is followed to its end.
StartChain ==
    /\ pc = "idle"
    /\ \E r \in ChainRequests :
         LET out == ExecuteInfiniteScrollQuery(collection, r)
         IN  /\ request' = r
             /\ result' = out.outcome
             /\ queries' = out.queries
             /\ pages' = <<out.outcome>>
    /\ pc' = "returned"
    /\ UNCHANGED <<collection, first>>
    /\ UNCHANGED others

\* The caller stops at the page that has no more.
FinishChain ==
    /\ ~(result.kind = "ok" /\ result.has_more)
    /\ Discard

ChainNext ==
    \/ \E doc \in Documents : CreateDocument(doc)
    \/ StartChain
    \/ NextPage
    \/ FinishChain

\* ENABLED NextPage: every conjunct of NextPage that has no primed variable.
CanAskNext ==
    /\ pc = "returned"
    /\ Len(pages) >= 1
    /\ Len(pages) < MaxPages
    /\ result.kind = "ok"
    /\ result.has_more

\* The caller of a page that has more asks for the next one: weak fairness
\* of NextPage, WF_vars(NextPage), written out with its enabling condition.
SpecChain ==
    /\ Init /\ [][ChainNext]_vars
    /\ ([]<>(~CanAskNext) \/ []<><<NextPage>>_vars)

\* ------------------------------------------- invocations side by side

\* What the threads ask for: pages in both orders, with and without a
\* cursor, and a call that is refused.
ThreadRequests ==
    [name : {None}, after_id : {None, Str(PadHex("1"))},
     limit : {MinLimit, MinLimit + 1},
     sort_by : {"name", "_id"}, order : {"asc", "desc"},
     allowed_sort_fields : {[t |-> "list", v |-> <<"_id", "name">>]}]
    \cup {[DefaultRequest EXCEPT !.limit = MinLimit - 1]}

\* The part of the state the threads leave alone.
callerVars == <<pc, request, result, queries, pages, first>>

\* Documents are created while no invocation runs.
QuietCreateDocument(doc) ==
    /\ \A t \in Threads : threads[t].pc = "idle"
    /\ CreateDocument(doc)

\* Lines 54-69: thread t enters the function and checks its parameters.
Begin(t) ==
    /\ threads[t].pc = "idle"
    /\ \E r \in ThreadRequests :
         LET msg == Validate(r)
         IN  threads' = [threads EXCEPT ![t] =
                 IF msg # NoMessage
                 THEN [pc |-> "done", req |-> r, items |-> <<>>, res |-> BadRequest(msg)]
                 ELSE [pc |-> "validated", req |-> r, items |-> <<>>, res |-> NoResult]]
    /\ UNCHANGED <<collection, callerVars, environ, files, config, call,
                   loginVars, mongoVars, encoding>>

\* Mutant: items is one list shared by all the invocations.
Query_SharedItems(t) ==
    /\ threads[t].pc = "validated"
    /\ LET found == Find(collection, StoreQuery(threads[t].req))
       IN  threads' = [u \in Threads |->
               IF u = t THEN [threads[u] EXCEPT !.pc = "fetched", !.items = found]
               ELSE [threads[u] EXCEPT !.items = found]]
    /\ UNCHANGED <<collection, callerVars, environ, files, config, call,
                   loginVars, mongoVars, encoding>>

\* Lines 71-83: thread t builds its query, sends it and lists the cursor
\* into its local items.
Query(t) ==
    /\ threads[t].pc = "validated"
    /\ threads' = [threads EXCEPT ![t].pc = "fetched",
                                  ![t].items = Find(collection, StoreQuery(threads[t].req))]
    /\ UNCHANGED <<collection, callerVars, environ, files, config, call,
                   loginVars, mongoVars, encoding>>

\* Lines 85-97: thread t makes the Page Result of its items and returns.
Shape(t) ==
    /\ threads[t].pc = "fetched"
    /\ threads' = [threads EXCEPT ![t].pc = "done",
                                  ![t].res = PageResult(threads[t].items, threads[t].req.limit)]
    /\ UNCHANGED <<collection, callerVars, environ, files, config, call,
                   loginVars, mongoVars, encoding>>

\* The caller of thread t has taken the result.
Finish(t) ==
    /\ threads[t].pc = "done"
    /\ threads' = [threads EXCEPT ![t] = IdleThread]
    /\ UNCHANGED <<collection, callerVars, environ, files, config, call,
                   loginVars, mongoVars, encoding>>

ConcurrentNext ==
    \/ \E doc \in Documents : QuietCreateDocument(doc)
    \/ \E t \in Threads : Begin(t)
    \/ \E t \in Threads : Query(t)
    \/ \E t \in Threads : Shape(t)
    \/ \E t \in Threads : Finish(t)

SpecConcurrent == Init /\ [][ConcurrentNext]_vars

\* ------------------------------------------- the eleven-item collection

\* The number of documents of the collection: item0..item10.
ScenarioSize == 11

\* f"item{i}"
ItemName(i) ==
    <<"i", "t", "e", "m">> \o
        (IF i < 10 THEN <<HexDigits[i + 1]>>
         ELSE <<HexDigits[(i \div 10) + 1], HexDigits[(i % 10) + 1]>>)

\* ObjectId(f"...{v:02d}"): the identifier whose last two hexadecimal
\* digits are the decimal digits of v.
ItemId(v) == OidOf(v \div 10, v % 10)

\* The number of items whose name sorts before item i's.
NameRank(i) ==
    Cardinality({j \in 0..(ScenarioSize - 1) :
        SeqLess([k \in 1..Len(ItemName(j)) |-> Code(ItemName(j)[k])],
                [k \in 1..Len(ItemName(i)) |-> Code(ItemName(i)[k])])})

\* The ways the distinct identifiers are given to item0..item10: in the
\* order of creation, in name order, and shuffled.
ScenarioIds ==
    {[i \in 0..(ScenarioSize - 1) |-> (a * i + b) % ScenarioSize] :
        a \in 1..(ScenarioSize - 1), b \in 0..(ScenarioSize - 1)}
    \cup {[i \in 0..(ScenarioSize - 1) |-> NameRank(i)]}

\* limit=10, sort_by="name", order="asc", no cursor.
ScenarioRequest ==
    [name |-> None, after_id |-> None, limit |-> DefaultLimit, sort_by |-> "name",
     order |-> "asc",
     allowed_sort_fields |-> [t |-> "list", v |-> <<"name", "description", "status">>]]

ScenarioInit ==
    /\ \E ids \in ScenarioIds :
         collection = [k \in 1..ScenarioSize |->
                          [_id |-> ItemId(ids[k - 1]), name |-> ItemName(k - 1)]]
    /\ pc = "idle"
    /\ request = DefaultRequest
    /\ result = NoResult
    /\ queries = <<>>
    /\ pages = <<>>
    /\ first = NoResult
    /\ OthersInit

\* The call of the scenario, without a cursor.
ScenarioFirstPage ==
    /\ pc = "idle"
    /\ LET out == ExecuteInfiniteScrollQuery(collection, ScenarioRequest)
       IN  /\ request' = ScenarioRequest
           /\ result' = out.outcome
           /\ queries' = out.queries
           /\ pages' = <<out.outcome>>
    /\ pc' = "returned"
    /\ UNCHANGED <<collection, first>>
    /\ UNCHANGED others

ScenarioNext ==
    \/ ScenarioFirstPage
    \/ NextPage
    \/ Discard

SpecScenario == ScenarioInit /\ [][ScenarioNext]_vars

\* ------------------------------------------------- the HTTP exceptions

HTTPExceptions ==
    {"HTTPBadRequest", "HTTPUnauthorized", "HTTPForbidden", "HTTPNotFound",
     "HTTPInternalServerError"}

\* The class attribute status_code.
StatusCode(class) ==
    CASE class = "HTTPBadRequest" -> 400
      [] class = "HTTPUnauthorized" -> 401
      [] class = "HTTPForbidden" -> 403
      [] class = "HTTPNotFound" -> 404
      [] class = "HTTPInternalServerError" -> 500

\* The class attribute message.
DefaultMessage(class) ==
    CASE class = "HTTPBadRequest" -> "Bad Request"
      [] class = "HTTPUnauthorized" -> "Unauthorized"
      [] class = "HTTPForbidden" -> "Forbidden"
      [] class = "HTTPNotFound" -> "Not Found"
      [] class = "HTTPInternalServerError" -> "Internal Server Error"

\* __init__(message): a falsy message leaves the class's message.
ExceptionMessage(class, arg) == IF arg # "" THEN arg ELSE DefaultMessage(class)

\* ------------------------------------------------------------- Token

\* A JWT: whether it can be decoded at all, the key it is signed with, its
\* exp claim against the clock, and whether aud and iss are the configured
\* ones.
Jwts ==
    {[wellformed |-> FALSE, key |-> <<>>, exp |-> "none", audience_issuer |-> TRUE]}
    \cup [wellformed : {TRUE}, key : {<<"s3cret">>, <<"attacker">>},
          exp : {"none", "past", "future"}, audience_issuer : BOOLEAN]

NoJwt == [wellformed |-> FALSE, key |-> <<>>, exp |-> "absent", audience_issuer |-> FALSE]

\* The Authorization header: the pieces of text it begins with, and the
\* JWT that follows them, if any. A missing header is the empty text.
Headers ==
    [prefix : {<<>>, <<"Basic", " ">>, <<"bearer", " ">>, <<"Bearer">>,
               <<"Bearer", " ">>, <<"Bearer", " ", " ">>},
     token : {NoJwt}]
    \cup [prefix : {<<"Bearer", " ">>}, token : Jwts]
    \cup [prefix : {<<>>, <<"Basic", " ">>},
          token : {[wellformed |-> TRUE, key |-> <<"s3cret">>, exp |-> "future",
                    audience_issuer |-> TRUE]}]

\* auth_header.startswith('Bearer ')
StartsWithBearer(h) ==
    Len(h.prefix) >= 2 /\ h.prefix[1] = "Bearer" /\ h.prefix[2] = " "

\* auth_header[7:].strip() is empty
EmptyToken(h) ==
    h.token = NoJwt /\ Strip(SubSeq(h.prefix, 3, Len(h.prefix))) = <<>>

\* Mutant: the signature is not compared with the secret.
JwtDecode_AnyKey(jwt, secret) ==
    IF ~jwt.wellformed THEN "InvalidTokenError"
    ELSE IF jwt.exp = "past" THEN "ExpiredSignatureError"
    ELSE IF ~jwt.audience_issuer THEN "InvalidTokenError"
    ELSE "claims"

\* jwt.decode(token, secret, algorithms, audience, issuer): the claims, or
\* the error raised.
JwtDecode(jwt, secret) ==
    IF ~jwt.wellformed THEN "InvalidTokenError"
    ELSE IF jwt.key # secret THEN "InvalidTokenError"
    ELSE IF jwt.exp = "past" THEN "ExpiredSignatureError"
    ELSE IF ~jwt.audience_issuer THEN "InvalidTokenError"
    ELSE "claims"

\* jwt.decode(token, options={"verify_signature": False}), followed by the
\* code's own comparison of exp with the clock.
JwtDecodeUnverified(jwt) ==
    IF ~jwt.wellformed THEN "InvalidTokenError"
    ELSE IF jwt.exp = "past" THEN "HTTPUnauthorized"
    ELSE "claims"

Unauthorized(cfg, msg) ==
    [config |-> cfg, raised |-> "HTTPUnauthorized", message |-> msg]

\* Token.__init__: the exception it raises ("none" when the token is
\* constructed), and the Config instance it leaves.
TokenInit(h, cfg, env, fs) ==
    IF ~StartsWithBearer(h)
    THEN Unauthorized(cfg, "Missing or invalid Authorization header")
    ELSE IF EmptyToken(h)
    THEN Unauthorized(cfg, "Empty token in Authorization header")
    ELSE LET got == GetInstance(cfg, env, fs)
             secret == got.config.attrs.JWT_SECRET
             decoded == IF secret # <<>> THEN JwtDecode(h.token, secret)
                        ELSE JwtDecodeUnverified(h.token)
         IN  IF got.raised # "none"
             THEN Unauthorized(got.config, "Error decoding token")
             ELSE CASE decoded = "claims" ->
                         [config |-> got.config, raised |-> "none", message |-> ""]
                    [] decoded \in {"ExpiredSignatureError", "HTTPUnauthorized"} ->
                         Unauthorized(got.config, "Token has expired")
                    [] OTHER -> Unauthorized(got.config, "Invalid token")

\* ------------------------------------------------------------ dev-login

\* The clock counts ticks; int(t.timestamp()) is the whole seconds of t.
TicksPerSecond == 2

SecondsPerMinute == 60

TicksPerMinute == SecondsPerMinute * TicksPerSecond

IntTimestamp(t) == t \div TicksPerSecond

\* timedelta(minutes=JWT_TTL_MINUTES), in ticks.
Lifetime(attrs) == attrs.JWT_TTL_MINUTES * TicksPerMinute

List(l) == [t |-> "list", v |-> l]

\* The methods the route is registered for.
Methods == {"POST", "OPTIONS"}

\* The JSON bodies of the requests: subject and roles, None when the key is
\* absent. A role is a text; roles come as a list or as one text.
LoginBodies ==
    [subject : {None, Str(<<"e2e-test-user">>)},
     roles : {None, List(<<>>), List(<<<<"test">>>>),
              Str(<<"admin", ",", " ", "user">>)}]

NoToken == <<>>

\* data.get('subject', 'dev-user-1')
SubjectOf(body) ==
    IF body.subject = None THEN Str(<<"dev-user-1">>) ELSE body.subject

\* data.get('roles', ['developer'])
RolesOf(body) ==
    IF body.roles = None THEN List(<<<<"developer">>>>) ELSE body.roles

\* dev_login(): what the route function does for a request made at the
\* time now, and the token it issues.
DevLogin(method, body, cfg, now) ==
    IF method = "OPTIONS"
    THEN [raised |-> "none", arg |-> "preflight", status |-> 200, token |-> NoToken]
    ELSE IF ~cfg.attrs.ENABLE_LOGIN
    THEN [raised |-> "HTTPNotFound", arg |-> "Not found", status |-> 0,
          token |-> NoToken]
    ELSE [raised |-> "none", arg |-> "access_token", status |-> 200,
          token |-> [sub |-> SubjectOf(body), roles |-> RolesOf(body),
                     key |-> cfg.attrs.JWT_SECRET,
                     iat |-> IntTimestamp(now),
                     exp |-> IntTimestamp(now + Lifetime(cfg.attrs))]]

\* The exp claim against the clock: int(now.timestamp()) >= exp, which is
\* the library's exp <= now.
Expired(exp, now) == IntTimestamp(now) >= exp

\* The issued token as the request of the time now carries it: iss and aud
\* are the configured ones.
AsJwt(token, now) ==
    [wellformed |-> TRUE, key |-> token.key,
     exp |-> IF Expired(token.exp, now) THEN "past" ELSE "future",
     audience_issuer |-> TRUE]

\* roles.split(','), each part stripped.
RECURSIVE SplitComma(_, _)
SplitComma(text, part) ==
    IF text = <<>> THEN <<Strip(part)>>
    ELSE IF Head(text) = "," THEN <<Strip(part)>> \o SplitComma(Tail(text), <<>>)
    ELSE SplitComma(Tail(text), Append(part, Head(text)))

\* Token._map_claims(): user_id is sub; roles that are not a list are split
\* when they are a text and emptied otherwise.
MapClaims(token) ==
    [user_id |-> token.sub.v,
     roles |-> CASE token.roles.t = "list" -> token.roles.v
                 [] token.roles.t = "str" -> SplitComma(token.roles.v, <<>>)
                 [] OTHER -> <<>>]

\* Token.to_dict(), without the remote address.
TokenToDict(claims) == [user_id |-> claims.user_id, roles |-> claims.roles]

\* ------------------------------------------------------------- MongoIO

\* ObjectId(None), ObjectId(): a new identifier, which no document has.
NewObjectId == OidOf(15, 15)

\* Match filters: every document, the documents of a name, the document of
\* an _id.
Everything == [t |-> "all", v |-> <<>>]

NameIs(n) == [t |-> "name", v |-> n]

IdIs(oid) == [t |-> "_id", v |-> oid]

Selected(doc, match) ==
    CASE match.t = "all" -> TRUE
      [] match.t = "name" -> doc.name = match.v
      [] match.t = "_id" -> doc._id = match.v

\* find_one: the place of the first document the filter selects, 0 when
\* there is none.
FindOne(coll, match) ==
    IF \E i \in 1..Len(coll) : Selected(coll[i], match)
    THEN CHOOSE i \in 1..Len(coll) :
            /\ Selected(coll[i], match)
            /\ \A j \in 1..(i - 1) : ~Selected(coll[j], match)
    ELSE 0

Doc(d) == [t |-> "doc", v |-> d]

\* What a method does once it is through to the database: the exception
\* it raises, the filter it sent, the collection it leaves and the value
\* it returns.
Outcome(raised, match, coll, returned) ==
    [raised |-> raised, match |-> match, collection |-> coll, returned |-> returned]

\* update_document(collection_name, document_id, match, set_data): the
\* _id filter is made when match is None; find_one_and_update refuses an
\* empty update.
UpdateDocument(coll, args) ==
    LET byId == args.match = None
        oid == IF args.document_id = None THEN NewObjectId
               ELSE ObjectId(args.document_id)
        match == IF byId THEN IdIs(oid) ELSE args.match
        i == FindOne(coll, match)
    IN  IF byId /\ args.document_id # None /\ ~ObjectIdParses(args.document_id)
        THEN Outcome("InvalidId", None, coll, None)
        ELSE IF args.set_data = None
        THEN Outcome("ValueError", match, coll, None)
        ELSE IF i = 0 THEN Outcome("none", match, coll, None)
        ELSE Outcome("none", match, [coll EXCEPT ![i].name = args.set_data.v],
                     Doc([coll[i] EXCEPT !.name = args.set_data.v]))

\* get_document(collection_name, document_id)
GetDocument(coll, args) ==
    IF ~ObjectIdParses(args.document_id)
    THEN Outcome("InvalidId", None, coll, None)
    ELSE LET match == IdIs(ObjectId(args.document_id))
             i == FindOne(coll, match)
         IN  Outcome("none", match, coll, IF i = 0 THEN None ELSE Doc(coll[i]))

\* create_document(collection_name, document): insert_one gives the
\* document the new _id.
CreateDocumentWith(coll, args, fresh) ==
    Outcome("none", None, Append(coll, [_id |-> fresh, name |-> args.name]),
            OidStr(fresh))

\* upsert_document(collection_name, match, data): the first document the
\* filter selects is updated; when there is none, one is inserted.
UpsertDocument(coll, args, fresh) ==
    LET i == FindOne(coll, args.match)
        inserted == [_id |-> fresh, name |-> args.data]
    IN  IF i = 0
        THEN Outcome("none", args.match, Append(coll, inserted), Doc(inserted))
        ELSE Outcome("none", args.match, [coll EXCEPT ![i].name = args.data],
                     Doc([coll[i] EXCEPT !.name = args.data]))

\* The methods that go to the database, and the arguments they are called
\* with.
UpdateArgs ==
    [document_id : {None, OidStr(OidOf(0, 1)), OidStr(OidOf(1, 1)),
                    Str(PadHex("g"))},
     match : {None, Everything, NameIs(<<"A">>)},
     set_data : {None, Str(<<"a", "B">>)}]

MethodCalls ==
    [op : {"get_collection", "drop_collection", "get_documents"}, args : {<<>>}]
    \cup [op : {"get_document"},
          args : [document_id : {OidStr(OidOf(0, 1)), Str(PadHex("g"))}]]
    \cup [op : {"create_document"}, args : [name : {<<"A">>}]]
    \cup [op : {"update_document"}, args : UpdateArgs]
    \cup [op : {"upsert_document"},
          args : [match : {NameIs(<<"A">>)}, data : {<<"a", "B">>}]]

\* The method, once it is through to the database.
Perform(c, coll, fresh) ==
    CASE c.op = "get_collection" -> Outcome("none", None, coll, Str(<<"collection">>))
      [] c.op = "drop_collection" -> Outcome("none", None, <<>>, Str(<<"True">>))
      [] c.op = "get_documents" -> Outcome("none", Everything, coll, [t |-> "list", v |-> coll])
      [] c.op = "get_document" -> GetDocument(coll, c.args)
      [] c.op = "create_document" -> CreateDocumentWith(coll, c.args, fresh)
      [] c.op = "update_document" -> UpdateDocument(coll, c.args)
      [] c.op = "upsert_document" -> UpsertDocument(coll, c.args, fresh)

\* What stops a method before the database: the attribute connected is
\* missing on an instance that never connected; the method's own check of
\* connected; a closed client that does not open again; a server that does
\* not answer.
Gate(m, srv, reopens) ==
    IF ~m.built THEN "AttributeError"
    ELSE IF ~m.connected THEN "Exception"
    ELSE IF m.client = "closed" /\ ~reopens THEN "InvalidOperation"
    ELSE IF ~srv THEN "ServerSelectionTimeoutError"
    ELSE "none"

\* The instance after disconnect(): the client is closed.
Disconnected(m) == [m EXCEPT !.client = "closed"]

\* __new__, line 73: _instance is set before the connection is made.
Allocated(m) == [NoMongo EXCEPT !.instance = TRUE]

\* __new__, lines 85-88: the attributes of the connected instance.
Connected(m) ==
    [instance |-> TRUE, built |-> TRUE, connected |-> TRUE, client |-> "open"]

\* ------------------------------------------------------ encode_document

\* Values of a document: a str, an int, a list of values, and a dict, which
\* is its entries in order; and what strings are converted to.
IntValue(n) == [t |-> "int", v |-> n]

Dict(entries) == [t |-> "dict", v |-> entries]

Oid(oid) == [t |-> "oid", v |-> oid]

Datetime(text) == [t |-> "datetime", v |-> text]

Entry(k, v) == [k |-> k, v |-> v]

\* The texts of the strings: one that ObjectId() takes, one that
\* datetime.fromisoformat() takes, one that neither takes.
IdText == PadHex("1")

DateText == <<"2024-12-27T12:34:56">>

OtherText == <<"someData">>

\* datetime.fromisoformat(x) returns.
DateParses(x) == x.t = "str" /\ x.v = DateText

\* encode_value(key, value) returns value, or ValueError is raised.
Encoded(raised, value) == [raised |-> raised, value |-> value]

\* [ObjectId(item) if isinstance(item, str) else item for item in value]
IdItems(items) ==
    Encoded(\E i \in 1..Len(items) : items[i].t = "str" /\ ~ObjectIdParses(items[i]),
            List([i \in 1..Len(items) |->
                    IF items[i].t = "str" /\ ObjectIdParses(items[i])
                    THEN Oid(ObjectId(items[i])) ELSE items[i]]))

\* [datetime.fromisoformat(item) if isinstance(item, str) else item for item in value]
DateItems(items) ==
    Encoded(\E i \in 1..Len(items) : items[i].t = "str" /\ ~DateParses(items[i]),
            List([i \in 1..Len(items) |->
                    IF DateParses(items[i]) THEN Datetime(items[i].v) ELSE items[i]]))

\* Mutant: date_properties is looked at before id_properties.
EncodeValue_DateFirst(key, value, ids, dates) ==
    IF key \in dates /\ value.t = "str"
    THEN Encoded(~DateParses(value), IF DateParses(value) THEN Datetime(value.v) ELSE value)
    ELSE IF key \in dates /\ value.t = "list" THEN DateItems(value.v)
    ELSE IF key \in ids /\ value.t = "str"
    THEN Encoded(~ObjectIdParses(value),
                 IF ObjectIdParses(value) THEN Oid(ObjectId(value)) ELSE value)
    ELSE IF key \in ids /\ value.t = "list" THEN IdItems(value.v)
    ELSE Encoded(FALSE, value)

\* encode_value(key, value): id_properties is looked at first.
EncodeValue(key, value, ids, dates) ==
    IF key \in ids /\ value.t = "str"
    THEN Encoded(~ObjectIdParses(value),
                 IF ObjectIdParses(value) THEN Oid(ObjectId(value)) ELSE value)
    ELSE IF key \in ids /\ value.t = "list" THEN IdItems(value.v)
    ELSE IF key \in dates /\ value.t = "str"
    THEN Encoded(~DateParses(value), IF DateParses(value) THEN Datetime(value.v) ELSE value)
    ELSE IF key \in dates /\ value.t = "list" THEN DateItems(value.v)
    ELSE Encoded(FALSE, value)

\* all(isinstance(item, dict) for item in value)
AllDicts(items) == \A i \in 1..Len(items) : items[i].t = "dict"

\* The for loops: the entries of a dict, the dicts of a list, the items of
\* a list, one after the other from place i on; what was done before an
\* exception stays done.
RECURSIVE EncodeEntries(_, _, _, _)
RECURSIVE EncodeDicts(_, _, _, _)
RECURSIVE EncodeItems(_, _, _, _, _)

EncodeItems(key, items, i, ids, dates) ==
    IF i > Len(items) THEN Encoded(FALSE, items)
    ELSE LET e == EncodeValue(key, items[i], ids, dates)
         IN  IF e.raised THEN Encoded(TRUE, items)
             ELSE EncodeItems(key, [items EXCEPT ![i] = e.value], i + 1, ids, dates)

EncodeDicts(items, i, ids, dates) ==
    IF i > Len(items) THEN Encoded(FALSE, items)
    ELSE LET e == EncodeEntries(items[i].v, 1, ids, dates)
             now == [items EXCEPT ![i] = Dict(e.value)]
         IN  IF e.raised THEN Encoded(TRUE, now)
             ELSE EncodeDicts(now, i + 1, ids, dates)

EncodeEntries(entries, i, ids, dates) ==
    IF i > Len(entries) THEN Encoded(FALSE, entries)
    ELSE LET key == entries[i].k
             value == entries[i].v
             e == CASE value.t = "dict" ->
                         LET d == EncodeEntries(value.v, 1, ids, dates)
                         IN  Encoded(d.raised, Dict(d.value))
                    [] value.t = "list" /\ AllDicts(value.v) ->
                         LET d == EncodeDicts(value.v, 1, ids, dates)
                         IN  Encoded(d.raised, List(d.value))
                    [] value.t = "list" /\ ~AllDicts(value.v) ->
                         LET d == EncodeItems(key, value.v, 1, ids, dates)
                         IN  Encoded(d.raised, IF d.raised THEN value ELSE List(d.value))
                    [] OTHER -> EncodeValue(key, value, ids, dates)
             now == [entries EXCEPT ![i].v = e.value]
         IN  IF e.raised THEN Encoded(TRUE, now)
             ELSE EncodeEntries(now, i + 1, ids, dates)

\* encode_document(document, id_properties, date_properties), both
\* properties lists of strings.
EncodeDocument(document, ids, dates) == EncodeEntries(document, 1, ids, dates)

\* The documents encode_document is called with: scalars, lists of
\* scalars, dicts and lists of dicts, nested.
PropertyKeys == {"id", "at", "x"}

Scalars == {Str(IdText), Str(DateText), Str(OtherText), IntValue(1)}

Leaves ==
    Scalars
    \cup {List(<<>>), List(<<Str(IdText), Str(IdText)>>),
          List(<<Str(DateText), IntValue(1)>>)}
    \cup {List(<<s>>) : s \in Scalars}

InnerDicts == {Dict(<<Entry(k, s)>>) : k \in PropertyKeys, s \in Scalars}

MidValues ==
    Leaves \cup InnerDicts
    \cup {List(<<d>>) : d \in InnerDicts}
    \cup {List(<<Dict(<<Entry("id", Str(IdText))>>), Dict(<<Entry("at", Str(DateText))>>)>>),
          List(<<Dict(<<Entry("id", Str(IdText))>>), Str(IdText)>>)}

MidDicts == {Dict(<<Entry(k, v)>>) : k \in PropertyKeys, v \in MidValues}

EncodeDocuments ==
    {<<Entry(k, v)>> : k \in PropertyKeys, v \in MidValues \cup MidDicts}
    \cup {<<Entry(k[1], v[1]), Entry(k[2], v[2])>> :
             k \in {kk \in PropertyKeys \X PropertyKeys : kk[1] # kk[2]},
             v \in Scalars \X Scalars}

IdProperties == {{}, {"id"}, {"id", "at"}}

DateProperties == {{}, {"at"}}

\* ------------------------------------------------ handle_route_exceptions

\* What a route function does: it returns a response, or raises an
\* exception of some class constructed with some message.
RouteOutcomes ==
    [raised : {"none"}, arg : {"ok"}, status : {200, 201}]
    \cup [raised : HTTPExceptions \cup {"ValueError", "PyMongoError"},
          arg : {"", "limit must be >= 1", "Database error"}, status : {0}]

\* The message the raised exception carries.
RaisedMessage(o) ==
    IF o.raised \in HTTPExceptions THEN ExceptionMessage(o.raised, o.arg) ELSE o.arg

\* Mutant: the handler of Exception comes first.
Handlers_ExceptionFirst ==
    <<"Exception", "HTTPBadRequest", "HTTPUnauthorized", "HTTPForbidden",
      "HTTPNotFound", "HTTPInternalServerError">>

\* The except clauses of the wrapper, in order.
Handlers ==
    <<"HTTPBadRequest", "HTTPUnauthorized", "HTTPForbidden", "HTTPNotFound",
      "HTTPInternalServerError", "Exception">>

\* isinstance(e, handler): every class raised here derives from Exception
\* directly.
Catches(handler, class) == handler = class \/ handler = "Exception"

\* The wrapped function's result for what the route function did: the
\* response, or the exception that escapes.
HandleRouteExceptions(o) ==
    IF o.raised = "none"
    THEN [escaped |-> "none", status |-> o.status, kind |-> "value", text |-> o.arg]
    ELSE IF \E i \in 1..Len(Handlers) : Catches(Handlers[i], o.raised)
    THEN LET i == CHOOSE i \in 1..Len(Handlers) :
                      /\ Catches(Handlers[i], o.raised)
                      /\ \A j \in 1..(i - 1) : ~Catches(Handlers[j], o.raised)
         IN  IF Handlers[i] = "Exception"
             THEN [escaped |-> "none", status |-> 500, kind |-> "error",
                   text |-> "A processing error occurred"]
             ELSE [escaped |-> "none", status |-> StatusCode(o.raised),
                   kind |-> "error", text |-> RaisedMessage(o)]
    ELSE [escaped |-> o.raised, status |-> 0, kind |-> "none", text |-> ""]

\* ------------------------------------------- configuration and requests

\* The values the environment variables are set to. An empty value is a
\* variable that is set.
EnvironValues(k) ==
    CASE k = "CONFIG_FOLDER" -> {<<"/cfg">>}
      [] k = "JWT_SECRET" -> {<<>>, <<"s3cret">>}
      [] k = "MONGO_DB_NAME" -> {<<>>, <<"ENV_VALUE">>}
      [] k = "JWT_TTL_MINUTES" -> {<<"1234">>}
      [] k = "ENABLE_LOGIN" -> {<<"True">>}
      [] OTHER -> {<<"ENV_VALUE">>}

\* The contents configuration files are written with.
FileContents(f, k) ==
    CASE k = "CONFIG_FOLDER" -> {}
      [] k = "JWT_SECRET" -> IF f = "cwd" THEN {<<"\n">>} ELSE {<<"s3cret", "\n">>}
      [] k = "JWT_TTL_MINUTES" -> IF f = "cwd" THEN {} ELSE {<<"9999">>, <<"soon">>}
      [] k = "ENABLE_LOGIN" -> IF f = "cwd" THEN {} ELSE {<<"true">>}
      [] k = "MONGO_CONNECTION_STRING" -> {}
      [] OTHER -> {<<"TEST_VALUE", "\n">>}

\* The number of variables and files that are set.
Settings ==
    Cardinality({k \in KeyNames : environ[k] # None})
    + Cardinality({f \in Folders \X KeyNames : files[f] # None})

paginationVars == <<collection, callerVars, threads>>

\* os.environ[k] = v
SetEnviron(k) ==
    /\ call = NoCall
    /\ Settings < MaxSettings
    /\ environ[k] = None
    /\ \E v \in EnvironValues(k) : environ' = [environ EXCEPT ![k] = Str(v)]
    /\ UNCHANGED <<paginationVars, encoding, loginVars, mongoVars, files, config, call>>

\* A configuration file is written.
WriteFile(f, k) ==
    /\ call = NoCall
    /\ Settings < MaxSettings
    /\ files[<<f, k>>] = None
    /\ \E v \in FileContents(f, k) : files' = [files EXCEPT ![<<f, k>>] = Str(v)]
    /\ UNCHANGED <<paginationVars, encoding, loginVars, mongoVars, environ, config, call>>

\* Config.get_instance()
CallGetInstance ==
    /\ call = NoCall
    /\ LET got == GetInstance(config, environ, files)
       IN  /\ config' = got.config
           /\ call' = [NoCall EXCEPT !.op = IF config.instance THEN "get_instance"
                                            ELSE "construct",
                                     !.raised = got.raised]
    /\ UNCHANGED <<paginationVars, encoding, loginVars, mongoVars, environ, files>>

\* config.initialize() on the instance there is.
CallInitialize ==
    /\ call = NoCall
    /\ config.instance
    /\ LET c == Initialize(config.attrs, environ, files)
       IN  /\ config' = [config EXCEPT !.attrs = c.attrs, !.items = c.items,
                                      !.versions = <<>>, !.enumerators = <<>>]
           /\ call' = [NoCall EXCEPT !.op = "initialize", !.raised = c.raised,
                                     !.before = config.attrs.CONFIG_FOLDER]
    /\ UNCHANGED <<paginationVars, encoding, loginVars, mongoVars, environ, files>>

\* config.set_versions(versions) with the documents read from the store.
SetVersions ==
    /\ call = NoCall
    /\ config.instance
    /\ config.versions = <<>>
    /\ config' = [config EXCEPT !.versions = <<"version">>]
    /\ UNCHANGED <<paginationVars, encoding, loginVars, mongoVars, environ, files, call>>

\* config.set_enumerators(enumerations) with the documents read from the
\* store.
SetEnumerators ==
    /\ call = NoCall
    /\ config.instance
    /\ config.enumerators = <<>>
    /\ config' = [config EXCEPT !.enumerators = <<"enumerators">>]
    /\ UNCHANGED <<paginationVars, encoding, loginVars, mongoVars, environ, files, call>>

\* Token(request) for a request with some Authorization header.
CallToken ==
    /\ call = NoCall
    /\ \E h \in Headers :
         LET t == TokenInit(h, config, environ, files)
         IN  /\ config' = t.config
             /\ call' = [NoCall EXCEPT !.op = "Token", !.raised = t.raised,
                                       !.message = t.message, !.arg = h]
    /\ UNCHANGED <<paginationVars, encoding, loginVars, mongoVars, environ, files>>

\* A request to a wrapped route whose function returns or raises.
CallRoute ==
    /\ call = NoCall
    /\ \E o \in RouteOutcomes :
         LET r == HandleRouteExceptions(o)
         IN  call' = [NoCall EXCEPT !.op = "route", !.raised = r.escaped,
                                   !.message = r.text, !.status = r.status,
                                   !.arg = o, !.kind = r.kind]
    /\ UNCHANGED <<paginationVars, encoding, loginVars, mongoVars, environ, files, config>>

\* A request to the wrapped route get_config, whose function constructs the
\* Token of the request and returns the configuration with status 200.
CallConfigRoute ==
    /\ call = NoCall
    /\ config.instance
    /\ \E h \in Headers :
         LET t == TokenInit(h, config, environ, files)
             o == IF t.raised = "none"
                  THEN [raised |-> "none", arg |-> "config", status |-> 200]
                  ELSE [raised |-> t.raised, arg |-> t.message, status |-> 0]
             r == HandleRouteExceptions(o)
         IN  /\ config' = t.config
             /\ call' = [NoCall EXCEPT !.op = "route", !.raised = r.escaped,
                                       !.message = r.text, !.status = r.status,
                                       !.arg = o, !.kind = r.kind]
    /\ UNCHANGED <<paginationVars, encoding, loginVars, mongoVars, environ, files>>

\* The caller has taken the outcome.
Ack ==
    /\ call # NoCall
    /\ call' = NoCall
    /\ UNCHANGED <<paginationVars, encoding, loginVars, mongoVars, environ, files, config>>

AppNext ==
    \/ \E k \in KeyNames : SetEnviron(k)
    \/ \E f \in Folders, k \in KeyNames : WriteFile(f, k)
    \/ CallGetInstance
    \/ CallInitialize
    \/ SetVersions
    \/ SetEnumerators
    \/ CallToken
    \/ CallRoute
    \/ CallConfigRoute
    \/ Ack

SpecApp == Init /\ [][AppNext]_vars

\* ------------------------------------------------------- login service

\* The latest tick at which the model has dev-login called.
MaxIssueTick == 1

\* The instants the service is looked at: the first ticks, and the ticks
\* around the end of the lifetime of the issued token.
Instants ==
    0..MaxIssueTick
    \cup (IF issued = NoIssued THEN {}
          ELSE {issued.at + Lifetime(issued.attrs) + e : e \in {-2, -1, 0, 1}})

\* Time passes.
Tick ==
    /\ call = NoCall
    /\ \E t \in Instants : t > clock /\ clock' = t
    /\ UNCHANGED <<paginationVars, encoding, mongoVars, environ, files, config, call, issued, session>>

\* A request to /dev-login of the blueprint made with the Config instance.
CallDevLogin ==
    /\ call = NoCall
    /\ config.instance
    /\ clock <= MaxIssueTick
    /\ \E m \in Methods, b \in LoginBodies :
         LET o == DevLogin(m, b, config, clock)
             r == HandleRouteExceptions(o)
         IN  /\ call' = [NoCall EXCEPT !.op = "dev_login", !.raised = r.escaped,
                                       !.message = r.text, !.status = r.status,
                                       !.arg = [method |-> m, body |-> b],
                                       !.kind = r.kind]
             /\ issued' = IF o.token = NoToken THEN issued
                          ELSE [token |-> o.token, at |-> clock,
                                attrs |-> config.attrs, body |-> b]
    /\ UNCHANGED <<paginationVars, encoding, mongoVars, environ, files, config, clock, session>>

\* Token(request) for a request that carries the issued token.
CallTokenIssued ==
    /\ call = NoCall
    /\ issued # NoIssued
    /\ LET h == [prefix |-> <<"Bearer", " ">>, token |-> AsJwt(issued.token, clock)]
           t == TokenInit(h, config, environ, files)
       IN  /\ config' = t.config
           /\ call' = [NoCall EXCEPT !.op = "token_issued", !.raised = t.raised,
                                     !.message = t.message, !.arg = h]
           /\ session' = IF t.raised = "none"
                         THEN TokenToDict(MapClaims(issued.token))
                         ELSE NoSession
    /\ UNCHANGED <<paginationVars, encoding, mongoVars, environ, files, clock, issued>>

\* The settings dev-login and Token read.
LoginKeys == {"ENABLE_LOGIN", "JWT_SECRET", "JWT_TTL_MINUTES"}

LoginNext ==
    \/ \E k \in LoginKeys : SetEnviron(k)
    \/ CallGetInstance
    \/ CallInitialize
    \/ Tick
    \/ CallDevLogin
    \/ CallTokenIssued
    \/ Ack

SpecLogin == Init /\ [][LoginNext]_vars

\* -------------------------------------------------------- MongoIO service

AllIdle == \A t \in Threads : callers[t].pc = "idle"

\* The server stops answering, and answers again.
ServerStops ==
    /\ mcall = NoMCall
    /\ server
    /\ server' = FALSE
    /\ UNCHANGED <<collection, callerVars, threads, encoding, environ, files, config, call,
                   loginVars, mongo, callers, mcall>>

ServerStarts ==
    /\ mcall = NoMCall
    /\ ~server
    /\ server' = TRUE
    /\ UNCHANGED <<collection, callerVars, threads, encoding, environ, files, config, call,
                   loginVars, mongo, callers, mcall>>

\* get_instance(), line 345: the thread reads _instance.
Enter(t) ==
    /\ mcall = NoMCall
    /\ callers[t].pc = "idle"
    /\ callers' = [callers EXCEPT ![t].pc = IF mongo.instance THEN "return" ELSE "new"]
    /\ UNCHANGED <<collection, callerVars, threads, encoding, environ, files, config, call,
                   loginVars, mongo, server, mcall>>

\* __new__, lines 72-73: the thread reads _instance again and sets it.
New(t) ==
    /\ callers[t].pc = "new"
    /\ IF mongo.instance
       THEN /\ callers' = [callers EXCEPT ![t].pc = "return"]
            /\ UNCHANGED mongo
       ELSE /\ callers' = [callers EXCEPT ![t].pc = "connect"]
            /\ mongo' = Allocated(mongo)
    /\ UNCHANGED <<collection, callerVars, threads, encoding, environ, files, config, call,
                   loginVars, server, mcall>>

\* __new__, lines 77-88: the client is made and pinged; the attributes are
\* set when the server answered, else the exception leaves get_instance().
Connect(t) ==
    /\ callers[t].pc = "connect"
    /\ IF server
       THEN /\ mongo' = Connected(mongo)
            /\ callers' = [callers EXCEPT ![t].pc = "return"]
       ELSE /\ callers' = [callers EXCEPT ![t].pc = "raised"]
            /\ UNCHANGED mongo
    /\ UNCHANGED <<collection, callerVars, threads, encoding, environ, files, config, call,
                   loginVars, server, mcall>>

\* get_instance(), line 347: the thread returns _instance to its caller.
Return(t) ==
    /\ callers[t].pc = "return"
    /\ callers' = [callers EXCEPT ![t] = [pc |-> "done", got |-> mongo]]
    /\ UNCHANGED <<collection, callerVars, threads, encoding, environ, files, config, call,
                   loginVars, mongo, server, mcall>>

\* The caller goes on.
Leave(t) ==
    /\ callers[t].pc \in {"done", "raised"}
    /\ callers' = [callers EXCEPT ![t] = IdleCaller]
    /\ UNCHANGED <<collection, callerVars, threads, encoding, environ, files, config, call,
                   loginVars, mongo, server, mcall>>

\* mongo.disconnect()
Disconnect ==
    /\ mcall = NoMCall
    /\ AllIdle
    /\ mongo.instance
    /\ LET gate == Gate(mongo, TRUE, TRUE)
       IN  /\ mongo' = IF gate = "none" THEN Disconnected(mongo) ELSE mongo
           /\ mcall' = [NoMCall EXCEPT !.op = "disconnect", !.before = mongo,
                                       !.raised = gate]
    /\ UNCHANGED <<collection, callerVars, threads, encoding, environ, files, config, call,
                   loginVars, server, callers>>

\* A call of a method of the instance that goes to the database. A closed
\* client opens again or refuses, as the driver has it.
CallMethod(c) ==
    /\ mcall = NoMCall
    /\ AllIdle
    /\ mongo.instance
    /\ pc = "idle"
    /\ c.op \in {"create_document", "upsert_document"} => Len(collection) < MaxDocs
    /\ \E reopens \in BOOLEAN, fresh \in StoreIds :
         LET gate == Gate(mongo, server, reopens)
             out == Perform(c, collection, fresh)
         IN  /\ \A i \in 1..Len(collection) : collection[i]._id # fresh
             /\ mongo' = IF mongo.built /\ mongo.connected /\ reopens
                         THEN [mongo EXCEPT !.client = "open"] ELSE mongo
             /\ collection' = IF gate = "none" THEN out.collection ELSE collection
             /\ mcall' = IF gate = "none"
                         THEN [op |-> c.op, args |-> c.args, before |-> mongo,
                               raised |-> out.raised, touched |-> TRUE,
                               match |-> out.match, returned |-> out.returned]
                         ELSE [NoMCall EXCEPT !.op = c.op, !.args = c.args,
                                              !.before = mongo, !.raised = gate]
    /\ UNCHANGED <<callerVars, threads, encoding, environ, files, config, call,
                   loginVars, server, callers>>

\* The caller has taken the outcome.
AckMethod ==
    /\ mcall # NoMCall
    /\ mcall' = NoMCall
    /\ UNCHANGED <<collection, callerVars, threads, encoding, environ, files, config, call,
                   loginVars, mongo, server, callers>>

MongoNext ==
    \/ \E doc \in Documents : CreateDocument(doc)
    \/ ServerStops
    \/ ServerStarts
    \/ \E t \in Threads : Enter(t)
    \/ \E t \in Threads : New(t)
    \/ \E t \in Threads : Connect(t)
    \/ \E t \in Threads : Return(t)
    \/ \E t \in Threads : Leave(t)
    \/ Disconnect
    \/ \E c \in MethodCalls : CallMethod(c)
    \/ AckMethod

SpecMongo == Init /\ [][MongoNext]_vars

\* ------------------------------------------------------- encoding calls

\* A call of encode_document with some document and properties is to come.
EncodeInit ==
    /\ collection = <<>>
    /\ pc = "idle"
    /\ request = DefaultRequest
    /\ result = NoResult
    /\ queries = <<>>
    /\ pages = <<>>
    /\ first = NoResult
    /\ ServicesInit
    /\ encoding \in [document : EncodeDocuments, id_properties : IdProperties,
                     date_properties : DateProperties, done : {FALSE},
                     raised : {FALSE}, result : {<<>>}]

\* encode_document(document, id_properties, date_properties) runs: the
\* document is as the call leaves it.
Encode ==
    /\ ~encoding.done
    /\ LET e == EncodeDocument(encoding.document, encoding.id_properties,
                               encoding.date_properties)
       IN  encoding' = [encoding EXCEPT !.done = TRUE, !.raised = e.raised,
                                        !.result = e.value]
    /\ UNCHANGED <<collection, callerVars, threads, environ, files, config, call,
                   loginVars, mongoVars>>

EncodeNext == Encode

SpecEncode == EncodeInit /\ [][EncodeNext]_vars

\* ------------------------------------------------------------ claims

Returned == pc = "returned"

Ok == Returned /\ result.kind = "ok"

Failed == Returned /\ result.kind = "HTTPBadRequest"

LimitMessages == {"limit must be >= 1", "limit must be <= 100"}

OrderMessage == "order must be 'asc' or 'desc'"

AfterIdMessage == "after_id must be a valid MongoDB ObjectId"

\* The request's limit, order and cursor are all valid.
LimitOrderCursorValid ==
    /\ request.limit \in 1..100
    /\ request.order \in {"asc", "desc"}
    /\ request.after_id.t = "none" \/ ObjectIdParses(request.after_id)

\* The documents the request's name and cursor select, stated from the
\* request, and their order under the request's sort.
Eligible(doc) ==
    /\ Truthy(request.name) => RegexSearch(request.name.v, doc.name)
    /\ request.after_id.t # "none" =>
          IF request.order = "asc"
          THEN SeqLess(ObjectId(request.after_id), doc._id)
          ELSE SeqLess(doc._id, ObjectId(request.after_id))

EligibleSorted ==
    SortDocs(SelectSeq(collection, Eligible),
             [field |-> request.sort_by,
              direction |-> IF request.order = "asc" THEN 1 ELSE -1])

\* C1: a successful call with limit in 1..100 returns at most limit items,
\* and the result's limit field is the requested limit.
C1_ItemsWithinLimit ==
    (Ok /\ request.limit \in 1..100) =>
        /\ Len(result.items) <= request.limit
        /\ result.limit = request.limit

\* C1 witness: a page cut to exactly limit items, one fewer than match.
C1_Witness ==
    /\ Ok /\ result.has_more
    /\ Len(result.items) = request.limit
    /\ Len(EligibleSorted) > request.limit

\* C2: in every result, has_more is true if and only if next_cursor is
\* not None.
C2_HasMoreIffCursor ==
    Ok => (result.has_more <=> result.next_cursor # None)

\* C2 witness: a result with has_more and a cursor.
C2_Witness ==
    Ok /\ result.has_more /\ result.next_cursor.t = "str"

\* C3: a result with a next_cursor has items, and the cursor is the string
\* form of the _id of the last of them.
C3_CursorIsLastItem ==
    (Ok /\ result.next_cursor # None) =>
        /\ Len(result.items) > 0
        /\ result.next_cursor = OidStr(result.items[Len(result.items)]._id)

\* C3 witness: a page requested after a cursor that has a cursor of its
\* own, the identifier of its last item and not of the last document found.
C3_Witness ==
    /\ Ok /\ request.after_id.t = "str"
    /\ result.next_cursor.t = "str" /\ Len(result.items) >= 1
    /\ result.next_cursor # OidStr(EligibleSorted[Len(EligibleSorted)]._id)

\* C4: the store is asked for at most limit + 1 documents; has_more is true
\* exactly when more than limit documents match, and then items is the first
\* limit documents of the sorted result; otherwise items is all matching
\* documents, has_more is false and next_cursor is None.
C4_OverFetch ==
    Ok =>
        /\ Len(queries) = 1
        /\ queries[1].limit <= request.limit + 1
        /\ result.has_more <=> Len(EligibleSorted) > request.limit
        /\ result.has_more =>
              result.items = SubSeq(EligibleSorted, 1, request.limit)
        /\ ~result.has_more =>
              /\ result.items = EligibleSorted
              /\ result.next_cursor = None

\* C4 witness: more documents match than the limit, and the store was
\* asked for limit + 1 of them.
C4_Witness ==
    /\ Ok /\ Len(EligibleSorted) > request.limit
    /\ result.has_more /\ Len(result.items) = request.limit
    /\ queries[1].limit = request.limit + 1

\* C5: every limit below 1 and every limit above 100 fails with Bad Request;
\* for the limits 1 to 100 the limit check does not fail.
C5_LimitRange ==
    Returned =>
        /\ (request.limit < 1 \/ request.limit > 100) => Failed
        /\ request.limit \in 1..100 => result.message.text \notin LimitMessages

\* C5 witness: limit 101 is refused for being too large.
C5_Witness ==
    /\ Failed /\ request.limit = 101
    /\ result.message.text = "limit must be <= 100"

\* The allow-list as C6 reads it: the caller's when one is supplied, the
\* default when none is.
ClaimedAllowList(allowed) ==
    IF allowed.t = "list" THEN allowed.v ELSE DefaultSortFields

\* C6: a sort_by that is not in the caller-supplied allow-list (the default
\* list when the caller supplies none) fails with Bad Request; a sort_by
\* that is in it succeeds when the other parameters are valid.
C6_SortByAllowList ==
    Returned =>
        /\ ~InSeq(request.sort_by, ClaimedAllowList(request.allowed_sort_fields))
              => Failed
        /\ (/\ InSeq(request.sort_by, ClaimedAllowList(request.allowed_sort_fields))
            /\ LimitOrderCursorValid) => Ok

\* C7: every order other than "asc" and "desc" fails with Bad Request.
C7_OrderChecked ==
    (Returned /\ request.order \notin {"asc", "desc"}) => Failed

\* C7 witness: order "ASC", all else valid, is refused for its order.
C7_Witness ==
    /\ Failed /\ request.order = "ASC" /\ request.limit = 1
    /\ result.message.text = OrderMessage

\* C8: an after_id that is present and does not parse as an identifier, the
\* empty string included, fails with Bad Request; an absent after_id never
\* causes a failure.
C8_AfterIdChecked ==
    Returned =>
        /\ (request.after_id.t # "none" /\ ~ObjectIdParses(request.after_id))
              => Failed
        /\ request.after_id.t = "none" => result.message.text # AfterIdMessage

\* C8 witness: the empty string is refused as a cursor.
C8_Witness ==
    /\ Failed /\ request.after_id = Str(<<>>)
    /\ result.message.text = AfterIdMessage

\* C9: when the call fails with Bad Request, no query has reached the store.
C9_ValidateBeforeQuery ==
    Failed => queries = <<>>

\* C9 witness: a malformed cursor refused over a collection that has
\* documents, with no query sent.
C9_Witness ==
    /\ Failed /\ result.message.text = AfterIdMessage
    /\ Len(collection) > 0 /\ queries = <<>>

\* C10: with an after_id, every returned document has an _id strictly
\* greater than it when order is "asc", strictly smaller when order is
\* "desc"; without an after_id no constraint on _id is applied.
C10_CursorRange ==
    Ok =>
        /\ request.after_id.t # "none" =>
              \A i \in 1..Len(result.items) :
                  IF request.order = "asc"
                  THEN SeqLess(ObjectId(request.after_id), result.items[i]._id)
                  ELSE SeqLess(result.items[i]._id, ObjectId(request.after_id))
        /\ request.after_id.t = "none" =>
              /\ queries[1].filter.id_op = "none"
              /\ result.items =
                    SubSeq(EligibleSorted, 1,
                           IF Len(EligibleSorted) < request.limit
                           THEN Len(EligibleSorted) ELSE request.limit)

\* C10 witness: a descending page after a cursor whose document is in the
\* collection and is left out of the page.
C10_Witness ==
    /\ Ok /\ request.after_id.t = "str" /\ request.order = "desc"
    /\ Len(result.items) > 0
    /\ Len(result.items) < Len(collection)
    /\ \E i \in 1..Len(collection) :
          collection[i]._id = ObjectId(request.after_id)

\* C14: a call, whether it succeeds or fails, leaves the documents of the
\* collection and their fields as they were.
C14_StoreUnchanged ==
    [][(pc = "idle" /\ pc' = "returned") => collection' = collection]_vars

\* C14 witness: a call has returned documents of a collection that still
\* holds them.
C14_Witness ==
    /\ Ok /\ Len(result.items) > 0
    /\ \A i \in 1..Len(result.items) :
          \E j \in 1..Len(collection) : collection[j] = result.items[i]

\* Whether s contains p as a substring, compared without regard to case.
ContainsIgnoringCase(s, p) ==
    \E k \in 1..(Len(s) - Len(p) + 1) :
        \A i \in 1..Len(p) : Lower(p[i]) = Lower(s[k + i - 1])

\* C15: with a non-empty name, the documents of the page are exactly those
\* whose name contains it as a substring, compared case-insensitively; with
\* no name or an empty one, no document is left out for its name.
C15_NameSubstring ==
    (Ok /\ request.after_id.t = "none" /\ ~result.has_more) =>
        \A i \in 1..Len(collection) :
            (\E j \in 1..Len(result.items) : result.items[j] = collection[i])
            <=> (Truthy(request.name) =>
                    ContainsIgnoringCase(collection[i].name, request.name.v))

\* Whether a's value of a field is at most b's.
KeyAtMost(a, b, field) == ~SeqLess(SortKey(b, field), SortKey(a, field))

\* C16: the items of a page are ordered by the one key sort_by, ascending
\* (direction 1) for order "asc" and descending (direction -1) for "desc";
\* with the defaults the sort is by name, ascending.
C16_PageSorted ==
    Ok =>
        /\ queries[1].sort =
              [field |-> request.sort_by,
               direction |-> IF request.order = "asc" THEN 1 ELSE -1]
        /\ \A i, j \in 1..Len(result.items) :
              i < j =>
                 IF request.order = "asc"
                 THEN KeyAtMost(result.items[i], result.items[j], request.sort_by)
                 ELSE KeyAtMost(result.items[j], result.items[i], request.sort_by)
        /\ (/\ request.sort_by = DefaultRequest.sort_by
            /\ request.order = DefaultRequest.order)
              => queries[1].sort = [field |-> "name", direction |-> 1]

\* C16 witness: two documents of different names, returned by name in
\* descending order, against their natural order.
C16_Witness ==
    /\ Ok /\ request.sort_by = "name" /\ request.order = "desc"
    /\ Len(result.items) = 2
    /\ result.items[1].name # result.items[2].name
    /\ result.items[1] = collection[2]

\* The chain of pages has come to its end: a page without has_more.
ChainDone ==
    /\ pc = "returned" /\ Len(pages) >= 1
    /\ result.kind = "ok" /\ ~result.has_more

\* The items of all the pages of the chain, in the order returned.
RECURSIVE ItemsOfPages(_)
ItemsOfPages(ps) ==
    IF Len(ps) = 0 THEN <<>> ELSE Head(ps).items \o ItemsOfPages(Tail(ps))

\* The documents of the collection the chain's name filter selects.
MatchesName(doc) ==
    Truthy(request.name) => RegexSearch(request.name.v, doc.name)

\* How often a document occurs in a sequence.
Occurrences(doc, s) == Cardinality({i \in 1..Len(s) : s[i] = doc})

\* Every matching document is in the chain's pages exactly once, and
\* nothing else is.
EveryDocumentOnce ==
    /\ \A i \in 1..Len(collection) :
          Occurrences(collection[i], ItemsOfPages(pages))
             = IF MatchesName(collection[i]) THEN 1 ELSE 0
    /\ \A i \in 1..Len(ItemsOfPages(pages)) :
          \E j \in 1..Len(collection) : collection[j] = ItemsOfPages(pages)[i]

\* The sort field never decreases as _id grows.
MonotoneWithId ==
    \A i, j \in 1..Len(collection) :
        SeqLess(collection[i]._id, collection[j]._id) =>
            KeyAtMost(collection[i], collection[j], request.sort_by)

\* The sort field grows as _id grows: no two documents share a value.
StrictlyMonotoneWithId ==
    \A i, j \in 1..Len(collection) :
        SeqLess(collection[i]._id, collection[j]._id) =>
            SeqLess(SortKey(collection[i], request.sort_by),
                    SortKey(collection[j], request.sort_by))

\* C12, as stated: when the sort field is monotonically correlated with _id,
\* the chain of calls from no cursor to the page without has_more returns
\* every matching document exactly once, for either order and every limit.
C12_PagingComplete ==
    (ChainDone /\ MonotoneWithId) => EveryDocumentOnce

\* C12, amended: the same when the sort field is strictly monotone in _id
\* (no two documents share a sort value), as it is when sorting by _id.
C12_PagingCompleteStrict ==
    (ChainDone /\ StrictlyMonotoneWithId) => EveryDocumentOnce

\* C12 witness: a chain of two pages of one document each, sorted by name.
C12_Witness ==
    /\ ChainDone /\ StrictlyMonotoneWithId /\ request.sort_by = "name"
    /\ Len(pages) = 2 /\ Len(ItemsOfPages(pages)) = 2
    /\ request.order = "desc"

ItemsInNameOrder == <<0, 1, 10, 2, 3, 4, 5, 6, 7, 8, 9>>

\* The document named item i.
Item(i) == collection[i + 1]

\* The first page of the scenario: the first 10 documents in name order,
\* has_more and the 10th's identifier as cursor.
FirstPageAsClaimed ==
    Len(pages) >= 1 =>
        /\ pages[1].kind = "ok"
        /\ pages[1].items = [k \in 1..10 |-> Item(ItemsInNameOrder[k])]
        /\ pages[1].has_more
        /\ pages[1].next_cursor = OidStr(Item(ItemsInNameOrder[10])._id)

\* The second page of the scenario: the one remaining document, no more.
SecondPageAsClaimed ==
    Len(pages) >= 2 =>
        /\ pages[2].kind = "ok"
        /\ pages[2].items = <<Item(ItemsInNameOrder[11])>>
        /\ ~pages[2].has_more
        /\ pages[2].next_cursor = None

\* The identifiers grow in name order.
IdsInNameOrder ==
    \A k \in 1..10 :
        SeqLess(Item(ItemsInNameOrder[k])._id, Item(ItemsInNameOrder[k + 1])._id)

\* C11, as stated: with 11 documents item0..item10 of distinct identifiers,
\* the call with limit 10 sorted by name returns the first 10 in name order,
\* has_more and the 10th's id as cursor, and the call repeated with that
\* cursor returns exactly the remaining document, no more, no cursor.
C11_TwoPages ==
    FirstPageAsClaimed /\ SecondPageAsClaimed

\* C11, amended: the first page is as stated; the second is the remaining
\* document when the identifiers grow in name order.
C11_TwoPagesIdsInNameOrder ==
    FirstPageAsClaimed /\ (IdsInNameOrder => SecondPageAsClaimed)

\* C11 witness: both pages fetched from a collection whose identifiers grow
\* in name order.
C11_Witness ==
    /\ Len(collection) = ScenarioSize /\ IdsInNameOrder
    /\ Len(pages) = 2 /\ Len(pages[2].items) = 1

\* C17: under every interleaving of the invocations of several threads on
\* the same unchanged collection, each invocation returns what it returns
\* when run alone.
C17_ConcurrentAsAlone ==
    \A t \in Threads :
        threads[t].pc = "done" =>
            threads[t].res = ExecuteInfiniteScrollQuery(collection, threads[t].req).outcome

\* C17 witness: two invocations have run interleaved and returned different
\* pages.
C17_Witness ==
    /\ threads[1].pc = "done" /\ threads[2].pc = "done"
    /\ threads[1].res.kind = "ok" /\ threads[2].res.kind = "ok"
    /\ Len(threads[1].res.items) > 0
    /\ threads[1].res.items # threads[2].res.items

SignatureVerifies == call.arg.token.key = config.attrs.JWT_SECRET

\* C19: Token is constructed only from a header "Bearer <jwt>" whose jwt is
\* not empty, decodes, is not expired and is signed with the configured
\* JWT_SECRET; in every other case HTTPUnauthorized is raised, and no
\* exception of another type ever is.
C19_TokenOnlyVerified ==
    call.op = "Token" =>
        /\ call.raised \in {"none", "HTTPUnauthorized"}
        /\ call.raised = "none" =>
              /\ StartsWithBearer(call.arg) /\ ~EmptyToken(call.arg)
              /\ call.arg.token.wellformed
              /\ call.arg.token.exp # "past"
              /\ SignatureVerifies

\* Whether the file folder/key exists.
HasFile(folder, k) ==
    FolderOf(folder) \in Folders /\ files[<<FolderOf(folder), k>>] # None

\* The attribute a key gets from a text: the text, its int() or whether it
\* is "true".
Converted(key, text) ==
    CASE key.kind = "int" -> IntOf(text)
      [] key.kind = "boolean" -> (LowerText(text) = <<"true">>)
      [] OTHER -> text

\* An initialisation has just run: by the constructor or by initialize().
JustInitialized == call.op \in {"construct", "initialize"}

\* The key's value is from the file folder/key when it exists, else from
\* the environment variable when it is set, else the default, and its
\* config_items entry e says so.
FileEnvironDefault(key, e, folder) ==
    IF HasFile(folder, key.name)
    THEN /\ e.from = "file"
         /\ call.raised = "none" =>
               config.attrs[key.name]
                  = Converted(key, Strip(files[<<FolderOf(folder), key.name>>].v))
    ELSE IF environ[key.name] # None
    THEN /\ e.from = "environment"
         /\ call.raised = "none" =>
               config.attrs[key.name] = Converted(key, environ[key.name].v)
    ELSE /\ e.from = "default"
         /\ call.raised = "none" =>
               config.attrs[key.name] = Converted(key, key.default)

\* The same, an environment variable counting only when it is not empty.
FileNonEmptyEnvironDefault(key, e, folder) ==
    IF HasFile(folder, key.name)
    THEN /\ e.from = "file"
         /\ call.raised = "none" =>
               config.attrs[key.name]
                  = Converted(key, Strip(files[<<FolderOf(folder), key.name>>].v))
    ELSE IF environ[key.name] # None /\ environ[key.name].v # <<>>
    THEN /\ e.from = "environment"
         /\ call.raised = "none" =>
               config.attrs[key.name] = Converted(key, environ[key.name].v)
    ELSE /\ e.from = "default"
         /\ call.raised = "none" =>
               config.attrs[key.name] = Converted(key, key.default)

\* C20, as stated: for every key, the value is from the file
\* CONFIG_FOLDER/<key> when it exists, else from the environment variable
\* when it is set, else the default, and config_items records that source.
C20_Precedence ==
    JustInitialized =>
        \A i \in 1..Len(config.items) :
            /\ config.items[i].name = ConfigKeys[i].name
            /\ FileEnvironDefault(ConfigKeys[i], config.items[i],
                                  config.attrs.CONFIG_FOLDER)

\* C20, amended: the same with an environment variable counting when it is
\* set to a non-empty value, and with BUILT_AT and CONFIG_FOLDER looked up
\* in the folder that was CONFIG_FOLDER before this initialisation.
C20_PrecedenceNonEmptyEnviron ==
    JustInitialized =>
        \A i \in 1..Len(config.items) :
            /\ config.items[i].name = ConfigKeys[i].name
            /\ FileNonEmptyEnvironDefault(ConfigKeys[i], config.items[i],
                  IF ConfigKeys[i].name \in {"BUILT_AT", "CONFIG_FOLDER"}
                  THEN call.before ELSE config.attrs.CONFIG_FOLDER)

\* C20 witness: an initialisation that completed with JWT_SECRET both in a
\* file and in the environment, and took the file's.
C20_Witness ==
    /\ JustInitialized /\ call.raised = "none"
    /\ Len(config.items) = Len(ConfigKeys)
    /\ HasFile(config.attrs.CONFIG_FOLDER, "JWT_SECRET")
    /\ environ["JWT_SECRET"] # None /\ environ["JWT_SECRET"].v # <<>>
    /\ config.items[Len(ConfigKeys)].from = "file"

\* The names of the keys whose values are secret.
SecretNames ==
    {ConfigKeys[i].name : i \in {j \in 1..Len(ConfigKeys) : ConfigKeys[j].kind = "secret"}}

\* The values a secret is given in a configuration that differs in its
\* secrets only.
SecretTexts == {<<>>, <<"s3cret">>, <<"other">>, <<"dev-secret-change-me">>}

\* The environments and file systems that differ from the present ones only
\* in the values of the secrets that are set.
EnvironVariants ==
    {[k \in KeyNames |-> IF k \in SecretNames /\ environ[k] # None
                         THEN Str(choice[k]) ELSE environ[k]] :
        choice \in [SecretNames -> SecretTexts]}

FilesVariants ==
    {[f \in Folders \X KeyNames |-> IF f[2] \in SecretNames /\ files[f] # None
                                    THEN Str(choice[f]) ELSE files[f]] :
        choice \in [Folders \X SecretNames -> SecretTexts]}

\* The same, an empty environment variable staying empty and a non-empty
\* one non-empty.
NonEmptyEnvironVariants ==
    {env \in EnvironVariants :
        \A k \in SecretNames :
            environ[k] # None => ((env[k].v = <<>>) <=> (environ[k].v = <<>>))}

\* The instance the last initialisation would have made of an environment
\* and file system.
InitializedWith(env, fs) ==
    Initialize([BlankAttributes EXCEPT !.CONFIG_FOLDER = call.before], env, fs)

\* The entries of the secrets say "secret".
SecretsSaySecret ==
    \A i \in 1..Len(config.items) :
        config.items[i].name \in SecretNames => config.items[i].value = <<"secret">>

\* C21, as stated: the config_items entry of every secret has value
\* "secret", and config_items and to_dict() are the same for any two
\* configurations that differ only in secret values.
C21_SecretsMasked ==
    JustInitialized =>
        /\ SecretsSaySecret
        /\ \A env \in EnvironVariants, fs \in FilesVariants :
              /\ InitializedWith(env, fs).items = config.items
              /\ ToDict([config EXCEPT !.items = InitializedWith(env, fs).items], call.arg)
                    = ToDict(config, call.arg)

\* C21, amended: the same for configurations that differ only in secret
\* values none of which is an empty environment variable in one and not in
\* the other.
C21_SecretsMaskedNonEmpty ==
    JustInitialized =>
        /\ SecretsSaySecret
        /\ \A env \in NonEmptyEnvironVariants, fs \in FilesVariants :
              /\ InitializedWith(env, fs).items = config.items
              /\ ToDict([config EXCEPT !.items = InitializedWith(env, fs).items], call.arg)
                    = ToDict(config, call.arg)

\* C21 witness: an initialisation that took a JWT_SECRET from the
\* environment and recorded it as "secret".
C21_Witness ==
    /\ JustInitialized /\ call.raised = "none"
    /\ config.attrs.JWT_SECRET = <<"s3cret">>
    /\ config.items[Len(ConfigKeys)].from = "environment"
    /\ config.items[Len(ConfigKeys)].value = <<"secret">>

\* JWT_SECRET is in no file and not in the environment.
SecretNotSet ==
    /\ environ["JWT_SECRET"] = None
    /\ \A f \in Folders : files[<<f, "JWT_SECRET">>] = None

\* C22: while JWT_SECRET is not set by file or environment, every call of
\* Config.get_instance() raises ValueError, the first and the later ones,
\* and no instance whose JWT_SECRET is the default or unset is returned.
C22_NoDefaultSecret ==
    call.op \in {"construct", "get_instance"} =>
        /\ SecretNotSet => call.raised = "ValueError"
        /\ call.raised = "none" =>
              /\ config.attrs.JWT_SECRET # <<"dev-secret-change-me">>
              /\ config.items # <<>>

\* C30: after a successful initialize(), config_items holds one entry per
\* key, in the keys' order, each from the source the key has now, and
\* versions and enumerators are empty.
C30_ItemsOfLastInitialize ==
    (JustInitialized /\ call.raised = "none") =>
        /\ Len(config.items) = Len(ConfigKeys)
        /\ \A i \in 1..Len(config.items) :
              /\ config.items[i].name = ConfigKeys[i].name
              /\ config.items[i].from \in {"file", "environment", "default"}
              /\ (config.items[i].from = "environment") =>
                     Truthy(environ[ConfigKeys[i].name])
              /\ (config.items[i].from = "file") =>
                     \E f \in Folders : files[<<f, ConfigKeys[i].name>>] # None
        /\ config.versions = <<>>
        /\ config.enumerators = <<>>

\* C30 witness: initialize() called again on an instance that had versions
\* and enumerators, after the environment changed.
C30_Witness ==
    /\ call.op = "initialize" /\ call.raised = "none"
    /\ config.items[3].from = "environment"
    /\ config.versions = <<>>

\* The cursor a call returns lies beyond the cursor it was made with, in the
\* direction of the order.
CursorAdvances ==
    (pc = "returned" /\ result.kind = "ok" /\ result.has_more
        /\ request.after_id # None) =>
        IF request.order = "asc"
        THEN SeqLess(ObjectId(request.after_id), ObjectId(result.next_cursor))
        ELSE SeqLess(ObjectId(result.next_cursor), ObjectId(request.after_id))

\* C29: every next_cursor returned for a call made with after_id = c is
\* strictly beyond c in the direction of the order, and the chain of calls
\* that feeds each next_cursor back reaches a page with has_more = False.
C29_PagingTerminates ==
    /\ [](CursorAdvances)
    /\ (pc = "returned" /\ result.has_more)
          ~> (pc = "returned" /\ result.kind = "ok" /\ ~result.has_more)

\* C29 witness: a call made with a cursor, sorted by name, returns a page that
\* has more, and with it the cursor the chain goes on from.
C29_Witness ==
    /\ pc = "returned" /\ Len(pages) = 1 /\ result.kind = "ok"
    /\ request.after_id = Str(PadHex("1")) /\ request.order = "asc"
    /\ request.sort_by = "name"
    /\ result.has_more /\ result.next_cursor # None

\* C24: while ENABLE_LOGIN is False every request to dev-login is answered
\* with status 404 and issues no token; a token is issued only while
\* ENABLE_LOGIN is True.
C24_DisabledIs404 ==
    call.op = "dev_login" =>
        /\ ~config.attrs.ENABLE_LOGIN =>
              call.status = 404 /\ call.message # "access_token"
        /\ call.message = "access_token" => config.attrs.ENABLE_LOGIN

\* The token was issued for a request that gave a subject and a list of
\* roles.
IssuedForSubjectAndRoles ==
    /\ issued # NoIssued
    /\ issued.body.subject # None
    /\ issued.body.roles # None
    /\ issued.body.roles.t = "list"

\* C26: a token dev-login issued for a subject s and a list of roles r is
\* accepted by Token under the same configuration at any time before issue
\* time + JWT_TTL_MINUTES, and its dictionary has user_id = s and roles = r.
C26_IssuedTokenAccepted ==
    (/\ call.op = "token_issued"
     /\ IssuedForSubjectAndRoles
     /\ config.attrs = issued.attrs
     /\ clock < issued.at + Lifetime(issued.attrs)) =>
        /\ call.raised = "none"
        /\ session.user_id = issued.body.subject.v
        /\ session.roles = issued.body.roles.v

\* The method was called on an instance that disconnect() had been called
\* on.
AfterDisconnect == mcall.op # "none" /\ mcall.before.client = "closed"

\* C23: disconnect() closes the client and sets connected to False; after
\* it every call of disconnect and of the methods that go to the database
\* raises an exception and does not touch the database.
C23_DisconnectedRefuses ==
    /\ (mcall.op = "disconnect" /\ mcall.raised = "none") =>
          mongo.client = "closed" /\ ~mongo.connected
    /\ AfterDisconnect => mcall.raised # "none" /\ ~mcall.touched

\* C27: the instance a caller of get_instance() receives is connected:
\* client and db are set and connected is True.
C27_ReceivedConnected ==
    \A t \in Threads :
        callers[t].pc = "done" =>
            /\ callers[t].got.instance
            /\ callers[t].got.built
            /\ callers[t].got.connected

\* C28: update_document targets the document of document_id whenever a
\* document_id is given, raises when neither document_id nor match is
\* given, and returns the updated document, or None when none is found.
C28_UpdateByDocumentId ==
    (mcall.op = "update_document" /\ mcall.touched) =>
        /\ (mcall.args.document_id # None /\ mcall.raised = "none") =>
              mcall.match = IdIs(ObjectId(mcall.args.document_id))
        /\ (mcall.args.document_id = None /\ mcall.args.match = None) =>
              mcall.raised # "none"
        /\ mcall.raised = "none" =>
              \/ /\ mcall.returned.t = "none"
                 /\ \A i \in 1..Len(collection) :
                        ~Selected(collection[i], mcall.match)
              \/ /\ mcall.returned.t = "doc"
                 /\ mcall.returned.v.name = mcall.args.set_data.v
                 /\ \E i \in 1..Len(collection) : collection[i] = mcall.returned.v

\* What the claim says of a value under a key and of what the call left in
\* its place; inBoth is what it says of a string under a key of both lists.
RECURSIVE AsClaimed(_, _, _, _, _, _)
AsClaimed(key, vin, vout, ids, dates, inBoth) ==
    CASE vin.t = "str" ->
            /\ (key \in ids /\ (key \notin dates \/ inBoth \in {"id", "both"}))
                  => vout = Oid(ObjectId(vin))
            /\ (key \in dates /\ (key \notin ids \/ inBoth \in {"date", "both"}))
                  => vout = Datetime(vin.v)
            /\ key \notin (ids \cup dates) => vout = vin
      [] vin.t = "dict" ->
            /\ vout.t = "dict" /\ Len(vout.v) = Len(vin.v)
            /\ \A i \in 1..Len(vin.v) :
                  /\ vout.v[i].k = vin.v[i].k
                  /\ AsClaimed(vin.v[i].k, vin.v[i].v, vout.v[i].v, ids, dates, inBoth)
      [] vin.t = "list" ->
            /\ vout.t = "list" /\ Len(vout.v) = Len(vin.v)
            /\ \A i \in 1..Len(vin.v) :
                  CASE vin.v[i].t = "dict" ->
                          AllDicts(vin.v) =>
                              AsClaimed(key, vin.v[i], vout.v[i], ids, dates, inBoth)
                    [] vin.v[i].t = "list" -> TRUE
                    [] OTHER -> AsClaimed(key, vin.v[i], vout.v[i], ids, dates, inBoth)
      [] OTHER -> vout = vin

EncodeReturned == encoding.done /\ ~encoding.raised /\ encoding # NoEncoding

\* C25: in the document encode_document returns, at every depth, each
\* string under a key of id_properties is an ObjectId and each string
\* under a key of date_properties is a datetime, in scalars, lists, nested
\* dicts and lists of dicts; every other value is unchanged.
C25_EncodesIdsAndDates ==
    EncodeReturned =>
        AsClaimed("", Dict(encoding.document), Dict(encoding.result),
                  encoding.id_properties, encoding.date_properties, "both")

\* C25 as the code has it: a string under a key of both lists is an
\* ObjectId.
C25_EncodesIdsFirst ==
    EncodeReturned =>
        AsClaimed("", Dict(encoding.document), Dict(encoding.result),
                  encoding.id_properties, encoding.date_properties, "id")

\* C25 witness: a call with a key in both lists returns a document in which
\* a string nested in a dict of a list was converted.
C25_Witness ==
    /\ EncodeReturned
    /\ encoding.id_properties \cap encoding.date_properties # {}
    /\ \E k \in PropertyKeys :
          /\ encoding.document = <<Entry("x", Dict(<<Entry("x",
                 List(<<Dict(<<Entry(k, Str(IdText))>>)>>))>>))>>
          /\ encoding.result = <<Entry("x", Dict(<<Entry("x",
                 List(<<Dict(<<Entry(k, Oid(ObjectId(Str(IdText))))>>)>>))>>))>>

====
